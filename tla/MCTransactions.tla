------------------------------ MODULE MCTransactions ------------------------------
EXTENDS Transactions

\* The second and the third arrival are of the same transaction.
MCTrxOf == <<<<1>>, <<2>>, <<2>>>>
MCInput == {<<1>>, <<2>>}
MCFirstAuth == [t \in MCInput |-> "p"]
MCSid == {<<7>>}
MCExpire == [t \in MCInput |-> IF t = <<1>> THEN 4 ELSE 3]
MCDelay == [t \in MCInput |-> IF t = <<1>> THEN 0 ELSE 1]

Nothing == [do |-> "nothing"]
Deferring ==
    [do : {"defer"}, sid : Sid, payer : {"q"}, delay : {1}, replace : {TRUE}]
      \cup [do : {"cancel"}, sid : Sid]

Producer ==
    [speculative |-> TRUE, producers |-> TRUE, persist |-> {}, fork |-> 1, arrivals |-> {2, 3},
     replace_deferred |-> TRUE, activates |-> FALSE, effects |-> {Nothing}]

\* A producer whose contracts do nothing; a node that only relays, and keeps what
\* its own clients send; a node in head mode; contracts that defer, replace and
\* cancel, before and after replace_deferred.
MCWorlds ==
    {Producer,
     [Producer EXCEPT !.producers = FALSE, !.persist = {1}, !.arrivals = {1, 3}],
     [Producer EXCEPT !.speculative = FALSE, !.producers = FALSE, !.arrivals = {1}],
     [Producer EXCEPT !.fork = 0, !.arrivals = {1}, !.effects = {Nothing} \cup Deferring],
     [Producer EXCEPT !.fork = 0, !.arrivals = {1}, !.effects = {Nothing} \cup Deferring,
                      !.replace_deferred = FALSE, !.activates = TRUE]}
================================================================================
