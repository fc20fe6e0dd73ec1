----------------------------- MODULE ProductionLoop -----------------------------
(***************************************************************************)
(* The loop of the producer plugin that decides, each time something       *)
(* happens, whether to build a block of its own, to speculate or to wait,  *)
(* and sets the timer that wakes it up (schedule_production_loop,          *)
(* start_block, schedule_delayed_production_loop, maybe_produce_block and  *)
(* the handlers that abort the pending block).                             *)
(*                                                                         *)
(* Handlers run one at a time on the main thread.  Those that end by       *)
(* calling schedule_production_loop leave pc = "schedule", and nothing     *)
(* else happens before that call.  A timer that has expired leaves a       *)
(* handler in the queue that _timer.cancel() no longer reaches.  Time is   *)
(* counted in ticks, a slot lasts Interval of them.  The transactions a    *)
(* block is filled with are left out; the active schedule does not change  *)
(* here (module ProducerNetwork has changes of schedule).                  *)
(***************************************************************************)
EXTENDS Integers, Sequences, FiniteSetsExt, Functions

CONSTANTS
    Interval,     \* block_interval_us, positive
    MinSleep,     \* block_interval_us / 10, positive
    HeadAge,      \* the age of the head beyond which a node only waits, 5 s
    Future,       \* how far from the future a block may come, 7 s
    Offset,       \* for the last block of a round or not, the time offset
    Repetitions,  \* producer_repetitions
    Schedule,     \* the active schedule, a sequence of producers
    Ours,         \* _producers
    Keyless,      \* those of Ours whose signature provider is missing
    Settings      \* the settings in which the node runs, records of
                  \*   ages: values of max-irreversible-block-age,
                  \*         negative for none
                  \*   features: those that do not need preactivation
                  \*   signingFails: whether a signature provider may fail
                  \*   maxNow, maxNum: bounds on the clock and block number

VARIABLES
    setting,     \* one of Settings; never changes
    now,         \* fc::time_point::now()
    head,        \* the slot and the number of the head block
    lib,         \* _irreversible_block_time, as a slot
    pend,        \* the slot and features of the block being built, or NoBlock
    mode,        \* _pending_block_mode
    timer,       \* the handler _timer waits with, or NoTimer
    queue,       \* handlers of expired timers that have not run
    enabled,     \* _production_enabled
    paused,      \* _pause_production
    maxAge,      \* _max_irreversible_block_age_us
    watermark,   \* _producer_watermarks, 0 where there is none
    toActivate,  \* _protocol_features_to_activate
    signaled,    \* _protocol_features_signaled
    active,      \* the features activated by the head and its ancestors
    pc           \* "idle", or "schedule" if the running handler is to schedule

chainVars == <<setting, now, head, lib, active>>
policyVars == <<enabled, paused, maxAge>>
featureVars == <<toActivate, signaled>>
vars == <<chainVars, pend, mode, timer, queue, policyVars, watermark,
          featureVars, pc>>

Ages == setting.ages
Features == setting.features
MaxNow == setting.maxNow
MaxNum == setting.maxNum

NoBlock == [slot |-> 0, features |-> {}]
NoLib == MaxNow + 1      \* fc::time_point::maximum()
NoTimer == [kind |-> "none", at |-> 0, slot |-> 0]

-----------------------------------------------------------------------------
(***************************************************************************)
(* Times.                                                                  *)
(***************************************************************************)

ScheduledProducer(slot) ==
    Schedule[1 + ((slot % (Len(Schedule) * Repetitions)) \div Repetitions)]

\* Mutant of PendingSlot: only the clock counts.
PendingSlotFromClock ==
    LET next == (now \div Interval) + 1
    IN  IF next * Interval - now < MinSleep THEN next + 1 ELSE next

\* calculate_pending_block_time: the first slot after both the clock and the
\* head, or the one behind it if that is too close.
PendingSlot ==
    LET next == (Max({now, head.slot * Interval}) \div Interval) + 1
    IN  IF next * Interval - now < MinSleep THEN next + 1 ELSE next

\* calculate_block_deadline
Deadline(slot) ==
    slot * Interval + Offset[slot % Repetitions = Repetitions - 1]

\* When a block is to be shipped: at its deadline, or, if that has passed, at
\* once, but not more than one interval before its slot.
ProduceAt(slot) ==
    IF Deadline(slot) > now THEN Deadline(slot)
    ELSE Max({now, (slot - 1) * Interval})

\* Mutant of NextBlockSlot: the unsigned distance is not wrapped around.
NextBlockSlotUnwrapped(p, current, num) ==
    LET index   == CHOOSE i \in 0..(Len(Schedule) - 1) : Schedule[i + 1] = p
        minimum == current + Max({1, watermark[p] - num + 1})
        at      == (minimum % (Len(Schedule) * Repetitions)) \div Repetitions
    IN  IF index = at THEN minimum
        ELSE minimum - (minimum % Repetitions) + Repetitions * (index - at)

\* calculate_next_block_time, for a producer of the schedule: from the slot
\* after current, or after as many slots as its watermark is ahead of num.
NextBlockSlot(p, current, num) ==
    LET index    == CHOOSE i \in 0..(Len(Schedule) - 1) : Schedule[i + 1] = p
        offset   == IF watermark[p] > num THEN watermark[p] - num + 1 ELSE 1
        minimum  == current + offset
        at       == (minimum % (Len(Schedule) * Repetitions)) \div Repetitions
        distance == IF index < at THEN index - at + Len(Schedule) ELSE index - at
    IN  IF index = at THEN minimum
        ELSE minimum - (minimum % Repetitions) + Repetitions * distance

\* get_irreversible_block_age has reached the limit.
TooOld == maxAge >= 0 /\ Max({0, now - lib * Interval}) >= maxAge

\* production_disabled_by_policy
Disabled == ~enabled \/ paused \/ TooOld

-----------------------------------------------------------------------------
(***************************************************************************)
(* schedule_production_loop.                                               *)
(***************************************************************************)

\* Mutant of Arm: the handlers of earlier timers do not compare their id.
ArmKeepsId(kind, at, slot) ==
    /\ timer' = [kind |-> kind, at |-> at, slot |-> slot]
    /\ queue' = queue

\* _timer.async_wait with ++_timer_corelation_id.  A handler does nothing
\* unless it holds the latest id, so those in the queue are void from now on.
Arm(kind, at, slot) ==
    /\ timer' = [kind |-> kind, at |-> at, slot |-> slot]
    /\ queue' = {}

\* The timer was cancelled and no other is set; the id is not incremented.
Disarm == timer' = NoTimer /\ queue' = queue

Mine == Ours \cap Range(Schedule)

\* schedule_delayed_production_loop: one interval before the first slot of a
\* producer of this node.
Delay(current, num) ==
    IF Mine = {} THEN Disarm
    ELSE Arm("loop", Interval *
                (Min({NextBlockSlot(p, current, num) : p \in Mine}) - 1), 0)

\* Whether the block for PendingSlot is one for this node to produce.
OurTurn ==
    LET p == ScheduledProducer(PendingSlot)
    IN  /\ p \in Ours \ Keyless
        /\ ~Disabled
        /\ watermark[p] =< head.num

\* start_block returns waiting, before it has aborted the pending block.
StartWaiting ==
    /\ ~OurTurn
    /\ now - head.slot * Interval > HeadAge
    /\ mode' = "speculating"
    /\ IF Disabled THEN Disarm
       ELSE Delay(PendingSlot, head.num + (IF pend = NoBlock THEN 0 ELSE 1))
    /\ UNCHANGED <<pend, featureVars>>

\* A speculative block.  ok is FALSE if controller::start_block throws.
StartSpeculating(ok) ==
    /\ ~OurTurn
    /\ now - head.slot * Interval =< HeadAge
    /\ mode' = "speculating"
    /\ pend' = IF ok THEN [slot |-> PendingSlot, features |-> {}] ELSE NoBlock
    /\ IF ~ok THEN Arm("loop", now + MinSleep, 0)
       ELSE IF Disabled THEN Disarm
       ELSE Delay(PendingSlot, head.num + 1)
    /\ UNCHANGED featureVars

\* A block of this node's own, which signals the features it is to activate
\* unless validate_protocol_features finds one of them active already.
StartProducing(ok) ==
    /\ OurTurn
    /\ mode' = "producing"
    /\ toActivate' = IF toActivate \cap active # {} THEN {} ELSE toActivate
    /\ signaled' = (signaled \/ toActivate' # {})
    /\ pend' = IF ok THEN [slot |-> PendingSlot, features |-> toActivate']
               ELSE NoBlock
    /\ IF ok THEN Arm("produce", ProduceAt(PendingSlot), PendingSlot)
       ELSE Arm("loop", now + MinSleep, 0)

ScheduleProductionLoop ==
    /\ pc = "schedule"
    /\ pc' = "idle"
    /\ \/ StartWaiting
       \/ \E ok \in BOOLEAN : StartSpeculating(ok)
       \/ \E ok \in BOOLEAN : StartProducing(ok)
    /\ UNCHANGED <<chainVars, policyVars, watermark>>

-----------------------------------------------------------------------------
(***************************************************************************)
(* The handlers.                                                           *)
(***************************************************************************)

\* Time passes, and not beyond the expiry of the timer.
Tick ==
    /\ pc = "idle"
    /\ now < MaxNow
    /\ timer = NoTimer \/ timer.at > now
    /\ now' = now + 1
    /\ UNCHANGED <<setting, head, lib, active, pend, mode, timer, queue, policyVars,
                   watermark, featureVars, pc>>

\* The timer expires: from here on cancel does not stop its handler.
Expire ==
    /\ pc = "idle"
    /\ timer # NoTimer
    /\ timer.at =< now
    /\ queue' = queue \cup {timer}
    /\ timer' = NoTimer
    /\ UNCHANGED <<chainVars, pend, mode, policyVars, watermark, featureVars, pc>>

LoopHandler(h) ==
    /\ h.kind = "loop"
    /\ queue' = queue \ {h}
    /\ UNCHANGED <<chainVars, pend, mode, timer, policyVars, watermark, featureVars>>

\* produce_block throws before it has changed anything, and the pending block
\* is aborted.
ProduceRefused(h) ==
    /\ h.kind = "produce"
    /\ mode # "producing" \/ pend = NoBlock
    /\ pend' = NoBlock
    /\ queue' = queue \ {h}
    /\ UNCHANGED <<chainVars, mode, timer, policyVars, watermark, featureVars>>

\* Mutant of ClearSignaled: the scheduled features are forgotten whenever a
\* block is produced.
ClearAlways ==
    /\ toActivate' = {}
    /\ signaled' = FALSE

\* produce_block forgets the features that the pending block activates.
ClearSignaled ==
    /\ toActivate' = IF signaled THEN {} ELSE toActivate
    /\ signaled' = FALSE

\* The signature provider fails and the pending block is aborted, after the
\* features it was to activate have been forgotten.
ProduceUnsigned(h) ==
    /\ setting.signingFails
    /\ h.kind = "produce"
    /\ mode = "producing" /\ pend # NoBlock
    /\ ClearSignaled
    /\ pend' = NoBlock
    /\ queue' = queue \ {h}
    /\ UNCHANGED <<chainVars, mode, timer, policyVars, watermark>>

\* The block that was built becomes the head; irreversible says that it made
\* an earlier block irreversible.
ProduceBlock(h, irreversible) ==
    /\ h.kind = "produce"
    /\ mode = "producing" /\ pend # NoBlock
    /\ head.num < MaxNum
    /\ ClearSignaled
    /\ head' = [slot |-> pend.slot, num |-> head.num + 1]
    /\ lib' = IF irreversible THEN head.slot ELSE lib
    /\ active' = active \cup pend.features
    /\ watermark' = [watermark EXCEPT ![ScheduledProducer(pend.slot)] = head.num + 1]
    /\ pend' = NoBlock
    /\ queue' = queue \ {h}
    /\ UNCHANGED <<setting, now, mode, timer, policyVars>>

\* A handler of an expired timer that holds the latest id.
RunHandler ==
    /\ pc = "idle"
    /\ \E h \in queue :
           \/ LoopHandler(h)
           \/ ProduceRefused(h)
           \/ ProduceUnsigned(h)
           \/ \E irreversible \in BOOLEAN : ProduceBlock(h, irreversible)
    /\ pc' = "schedule"

\* on_incoming_block of a block that is not known.  push_block may throw or
\* leave the head where it is, or the head becomes the new block, on this
\* branch or on another.
IncomingBlock(slot, num, features, irreversible) ==
    /\ pc = "idle"
    /\ slot * Interval < now + Future
    /\ slot >= num
    /\ slot > lib \/ lib = NoLib
    /\ pend' = NoBlock
    /\ pc' = "schedule"
    /\ \/ UNCHANGED <<head, lib, active, enabled>>
       \/ /\ \/ UNCHANGED <<head, lib, active>>
             \/ /\ head' = [slot |-> slot, num |-> num]
                /\ lib' = IF irreversible THEN slot - 1 ELSE lib
                /\ active' = features
          /\ enabled' = (enabled \/ (head'.slot + 1) * Interval >= now)
    /\ UNCHANGED <<setting, now, mode, timer, queue, paused, maxAge, watermark, featureVars>>

Pause ==
    /\ pc = "idle"
    /\ paused' = TRUE
    /\ UNCHANGED <<chainVars, pend, mode, timer, queue, enabled, maxAge,
                   watermark, featureVars, pc>>

\* A change of policy is followed by a new evaluation if the node speculates.
Reevaluate ==
    IF mode = "speculating"
    THEN pend' = NoBlock /\ pc' = "schedule"
    ELSE UNCHANGED <<pend, pc>>

\* Mutant of Resume: waits for the next block or timer.
ResumeOnly ==
    /\ pc = "idle"
    /\ paused' = FALSE
    /\ UNCHANGED <<chainVars, pend, mode, timer, queue, enabled, maxAge,
                   watermark, featureVars, pc>>

Resume ==
    /\ pc = "idle"
    /\ paused' = FALSE
    /\ Reevaluate
    /\ UNCHANGED <<chainVars, mode, timer, queue, enabled, maxAge,
                   watermark, featureVars>>

\* update_runtime_options of max_irreversible_block_age
UpdateMaxAge(age) ==
    /\ pc = "idle"
    /\ maxAge' = age
    /\ Reevaluate
    /\ UNCHANGED <<chainVars, mode, timer, queue, enabled, paused,
                   watermark, featureVars>>

\* get_integrity_hash, and write_snapshot of create_snapshot
AbortAndReschedule ==
    /\ pc = "idle"
    /\ pend # NoBlock
    /\ pend' = NoBlock
    /\ pc' = "schedule"
    /\ UNCHANGED <<chainVars, mode, timer, queue, policyVars, watermark, featureVars>>

\* schedule_protocol_feature_activations
ScheduleFeatures(features) ==
    /\ pc = "idle"
    /\ features \cap active = {}
    /\ toActivate' = features
    /\ signaled' = FALSE
    /\ UNCHANGED <<chainVars, pend, mode, timer, queue, policyVars, watermark, pc>>

-----------------------------------------------------------------------------

Slots == 0..((MaxNow + Future) \div Interval)

\* plugin_startup ends with schedule_production_loop.
Init ==
    /\ setting \in Settings
    /\ now = 0
    /\ head = [slot |-> 0, num |-> 0]
    /\ lib \in {0, NoLib}
    /\ pend = NoBlock
    /\ mode = "producing"
    /\ timer = NoTimer
    /\ queue = {}
    /\ enabled \in BOOLEAN
    /\ paused \in BOOLEAN
    /\ maxAge \in Ages
    /\ watermark = [p \in Ours |-> 0]
    /\ toActivate = {}
    /\ signaled = FALSE
    /\ active = {}
    /\ pc = "schedule"

Next ==
    \/ ScheduleProductionLoop
    \/ Tick
    \/ Expire
    \/ RunHandler
    \/ \E slot \in Slots, num \in 1..MaxNum, features \in SUBSET Features,
          irreversible \in BOOLEAN :
              IncomingBlock(slot, num, features, irreversible)
    \/ Pause
    \/ Resume
    \/ \E age \in Ages : UpdateMaxAge(age)
    \/ AbortAndReschedule
    \/ \E features \in SUBSET Features : ScheduleFeatures(features)

Spec == Init /\ [][Next]_vars

-----------------------------------------------------------------------------

\* Types, and of all the timers that were ever set at most one, waiting or
\* queued, still holds the latest correlation id.
TypeOK ==
    /\ Cardinality(queue \cup ({timer} \ {NoTimer})) =< 1
    /\ now \in 0..MaxNow
    /\ head \in [slot : Nat, num : 0..MaxNum]
    /\ lib \in Nat
    /\ pend \in [slot : Nat, features : SUBSET Features]
    /\ mode \in {"producing", "speculating"}
    /\ timer \in [kind : {"none", "loop", "produce"}, at : Int, slot : Nat]
    /\ queue \subseteq [kind : {"loop", "produce"}, at : Int, slot : Nat]
    /\ enabled \in BOOLEAN /\ paused \in BOOLEAN /\ maxAge \in Ages
    /\ watermark \in [Ours -> 0..MaxNum]
    /\ toActivate \subseteq Features /\ signaled \in BOOLEAN
    /\ active \subseteq Features
    /\ pc \in {"idle", "schedule"}

\* A timer only ever ships the block it was set for, although its handler may
\* be queued when the block is aborted and another one is built: the
\* correlation id makes it void, and where the id is not incremented (the node
\* speculates or waits with no timer) produce_block refuses.
ProducesArmed ==
    \A h \in queue, irreversible \in BOOLEAN :
        ProduceBlock(h, irreversible) => h.slot = pend.slot

\* Whenever the main thread is idle and no timer is due, a node whose turn it
\* is in the slot that has begun is building that block (or retrying to), and
\* not speculating or asleep: neither an incoming block, a resume, a changed
\* limit, an aborted block nor the delayed timer leaves it waiting too long.
OwnSlotTaken ==
    pc = "idle" /\ queue = {} /\ (timer = NoTimer \/ timer.at > now)
        /\ OurTurn /\ (PendingSlot - 1) * Interval =< now
    => mode = "producing"

\* The block being built is for a slot after the head's, also when the head is
\* from the future: shipped early by this node, or received from a clock that
\* is ahead.
PendingAhead == pend # NoBlock => pend.slot > head.slot

\* calculate_next_block_time is the first slot of the producer that is not
\* before the minimum, for whatever watermark is reached.
NextBlockIsFirst ==
    \A p \in Mine, current \in Slots :
        NextBlockSlot(p, current, head.num) =
            Min({s \in (current + Max({1, watermark[p] - head.num + 1}))..
                       (current + MaxNum + 1 + Len(Schedule) * Repetitions) :
                     ScheduledProducer(s) = p})

\* A step keeps the features that are scheduled for activation, makes them active,
\* drops a list of which one is active already, or replaces the list on request.
KeepsFeatures ==
    \/ toActivate \subseteq toActivate' \cup active'
    \/ toActivate \cap active # {}
    \/ \E features \in SUBSET Features : ScheduleFeatures(features)

\* A feature that was scheduled for activation stays scheduled until it is active
\* or another call replaces the list, whatever aborts the block that signals it,
\* "do a copy as pending_block might be aborted": a received block, a snapshot, a
\* change of policy or a start that throws, but not a signature that fails.
AbortKeepsFeatures == KeepsFeatures \/ \E h \in queue : ProduceUnsigned(h)

\* An idle node whose turn it is builds its block, for a slot after the head's, with at most
\* one timer that still counts, and the slots it waits for are the right ones (OwnSlotTaken,
\* PendingAhead, TypeOK and NextBlockIsFirst).
LoopSound == TypeOK /\ OwnSlotTaken /\ PendingAhead /\ NextBlockIsFirst

\* Every step ships the block its handler was set for and keeps the scheduled features
\* unless a signature fails (ProducesArmed and AbortKeepsFeatures).
HandlersSound == ProducesArmed /\ AbortKeepsFeatures
================================================================================
