------------------------------ MODULE MCRelay ------------------------------
(***************************************************************************)
(* Small relays: two sessions s1 and s2 of one host h1, a hook process for *)
(* each, and one host h2 that announces.                                   *)
(***************************************************************************)
EXTENDS Relay

CONSTANTS h1, h2, s1, s2, r1, r2, p1, p2, watcher, stopper, w1, w2, e1

BothOfH1 == [s \in Sessions |-> h1]
EachDrains == [r \in Readers |-> IF r = r1 THEN s1 ELSE s2]
EachAtStages == [r \in Readers |->
    IF r = r1 THEN {"pre-tool-use", "post-tool-use"} ELSE {"pre-invocation"}]

\* Everybody wants to know of the event, and the host to be stopped by it.
WatchedBy == [w \in Watches |->
    IF w = w1 THEN [sub |-> Star, action |-> "report", hears |-> {e1}]
              ELSE [sub |-> h1, action |-> "interrupt", hears |-> {e1}]]

\* Two sessions drain at once; two publishers meet at an address with little
\* room, behind interrupts; a publisher and watches that come and go.
Draining == {r1, r2, p1}
Crowding == {r2, p1, p2, stopper}
Watching == {r1, p1, watcher, stopper}
ThreeCrews == {Draining, Crowding, Watching}
SignalsOf == [c \in Crews |-> IF c = Crowding THEN 3 ELSE IF c = Draining THEN 2 ELSE 1]
TimeOf == [c \in Crews |-> IF c = Crowding THEN 0 ELSE 2]
=============================================================================
