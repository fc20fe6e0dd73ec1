---------------------------- MODULE MCComponents ----------------------------
(* The variables that several components share in one run of TLC.  The        *)
(* components of such a run do not interact: a behaviour is a behaviour of    *)
(* one of them, named by component, whose variables are v1, v2, ...; the ones *)
(* it does not need stay 0.                                                   *)
VARIABLES component, v1, v2, v3, v4, v5, v6, v7, v8, v9, v10, v11, v12, v13,
          v14, v15, v16

shared == <<component, v1, v2, v3, v4, v5, v6, v7, v8, v9, v10, v11, v12, v13,
            v14, v15, v16>>

\* OffN and StayN: the variables from vN on are not used.
Off17 == TRUE
Off16 == v16 = 0 /\ Off17
Off15 == v15 = 0 /\ Off16
Off14 == v14 = 0 /\ Off15
Off13 == v13 = 0 /\ Off14
Off12 == v12 = 0 /\ Off13
Off11 == v11 = 0 /\ Off12
Off10 == v10 = 0 /\ Off11
Off9 == v9 = 0 /\ Off10
Off8 == v8 = 0 /\ Off9
Off7 == v7 = 0 /\ Off8
Off6 == v6 = 0 /\ Off7
Off5 == v5 = 0 /\ Off6
Off4 == v4 = 0 /\ Off5
Off3 == v3 = 0 /\ Off4
Off2 == v2 = 0 /\ Off3

Stay17 == UNCHANGED component
Stay16 == UNCHANGED v16 /\ Stay17
Stay15 == UNCHANGED v15 /\ Stay16
Stay14 == UNCHANGED v14 /\ Stay15
Stay13 == UNCHANGED v13 /\ Stay14
Stay12 == UNCHANGED v12 /\ Stay13
Stay11 == UNCHANGED v11 /\ Stay12
Stay10 == UNCHANGED v10 /\ Stay11
Stay9 == UNCHANGED v9 /\ Stay10
Stay8 == UNCHANGED v8 /\ Stay9
Stay7 == UNCHANGED v7 /\ Stay8
Stay6 == UNCHANGED v6 /\ Stay7
Stay5 == UNCHANGED v5 /\ Stay6
Stay4 == UNCHANGED v4 /\ Stay5
Stay3 == UNCHANGED v3 /\ Stay4
Stay2 == UNCHANGED v2 /\ Stay3
==============================================================================
