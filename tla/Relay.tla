------------------------------- MODULE Relay -------------------------------
(***************************************************************************)
(* The cross-harness relay of src/ctx/relay.py, with the drains that       *)
(* src/ctx/hook.py and src/ctx/acp.py make of it.                          *)
(*                                                                         *)
(* One file of rows: watches, signals and delivery receipts.  Publishers   *)
(* queue signals for whoever watches; hooks drain what is addressed to     *)
(* them, a receipt per signal and then the text; somebody compacts the     *)
(* file now and then.  Appending a row is one step (AppendLog), except     *)
(* that compaction puts another file in the place of the one an appender   *)
(* may already have open.                                                  *)
(***************************************************************************)
EXTENDS Integers, Sequences, FiniteSets, SequencesExt, Sorting

CONSTANTS Hosts, Sessions,      \* addresses: "claude", "claude:0f1e2d"
          Star,                 \* the address "*"
          HostOf,               \* [Sessions -> Hosts]
          Readers, AddrOf,      \* hook processes, and whom each drains for
          StagesOf,             \* the stages each of them drains at
          Publishers,
          Watchers, Stoppers,   \* commands: watch and unwatch; interrupt
          Events, Watches,      \* what is announced; watch ids
          WatchOf,              \* of each: subscriber, action, events it hears
          Direct, Stopped,      \* addresses signalled by name, interrupted
          Ttls,                 \* lifetimes a caller may ask for
          MaxPending, Limit,    \* per subscriber, per drain
          Room,                 \* signals whose text fits MAX_RENDER_CHARS
          Keep,                 \* gc()'s keep_seconds
          Crews,                \* sets of processes: who may be at work
          None,
          MaxSignals, MaxNow    \* bounds of the model, for each crew

Addresses == Hosts \cup Sessions \cup {Star}
Kinds == {"report", "advise", "interrupt"}
Stages == {"session-start", "pre-invocation", "pre-tool-use", "post-tool-use",
           "acp-prompt", "acp-cancel", "cli"}

ASSUME RelayAssumption ==
    /\ HostOf \in [Sessions -> Hosts]
    /\ AddrOf \in [Readers -> Sessions \cup Hosts]
    /\ StagesOf \in [Readers -> SUBSET Stages]
    /\ WatchOf \in [Watches -> [sub : Addresses, action : Kinds, hears : SUBSET Events]]
    /\ Direct \subseteq Addresses /\ Stopped \subseteq Addresses
    /\ Ttls \subseteq Nat \ {0}
    /\ IsFiniteSet(Publishers) /\ MaxPending \in Nat \ {0}
    /\ {Limit, Room, Keep} \subseteq Nat
    /\ MaxSignals \in [Crews -> Nat] /\ MaxNow \in [Crews -> Nat]

VARIABLES crew,                 \* who is at work
          queue,                \* the rows of relay.jsonl
          now,
          stale,                \* who may wait to append to a replaced file
          sent,                 \* signals ever queued: their ids are 1..sent
          pub,                  \* publishers: the rest of publish()
          rd,                   \* readers: the rest of drain()
          posted,               \* history: signals whose append() returned
          astray,               \* history: rows appended to a replaced file
          shown,                \* history: <<signal, subscriber>> a harness saw
          unseen                \* history: and those drained but not shown

vars == <<crew, queue, now, stale, sent, pub, rd, posted, astray, shown, unseen>>

Idle == [todo |-> {}, aim |-> None, began |-> 0, ends |-> 0]
NoDrain == [stage |-> None, picks |-> <<>>, done |-> 0]

-----------------------------------------------------------------------------
(* Rows.                                                                   *)

Row(schema, id, kind, addr, ends, ts) ==
    [schema |-> schema, id |-> id, kind |-> kind, addr |-> addr,
     ends |-> ends, ts |-> ts]

Of(q, schema) == {r \in ToSet(q) : r.schema = schema}

Host(a) == IF a \in Sessions THEN HostOf[a] ELSE a

\* _addresses: itself, its host, and everybody.
Reach(a) == {a, Host(a), Star}

\* Mutant: a receipt counts for the address that drained only.
SeenBySubscriber(q, s, a) ==
    \E d \in Of(q, "delivery") : d.id = s.id /\ d.addr = a

\* Mutant: a receipt counts for everybody, broadcasts included.
SeenByAnybody(q, s, a) == \E d \in Of(q, "delivery") : d.id = s.id

\* A receipt settles a signal for all readers of its address, and a broadcast
\* for one of them.
Seen(q, s, a) ==
    \E d \in Of(q, "delivery") : d.id = s.id /\ (s.addr = Star => d.addr = a)

\* pending(): undelivered, unexpired signals addressed to this subscriber.
Pending(q, a, time) ==
    {s \in Of(q, "signal") : s.addr \in Reach(a) /\ s.ends > time /\ ~Seen(q, s, a)}

\* active_watches(): the last row of each watch decides.
LastOf(q, w) == SelectLastInSeq(q, LAMBDA r : r.schema = "watch" /\ r.id = w)
ActiveWatches(q, time) ==
    {w \in Watches : LastOf(q, w) # 0 /\ q[LastOf(q, w)].ends > time}

-----------------------------------------------------------------------------
Init ==
    /\ crew \in Crews
    /\ queue = <<>> /\ now = 0 /\ stale = {} /\ sent = 0
    /\ pub = [p \in Publishers |-> Idle]
    /\ rd = [r \in Readers |-> NoDrain]
    /\ posted = {} /\ astray = {} /\ shown = {} /\ unseen = {}

\* append(): the row reaches the queue, or a file nobody will read again.
Append1(p, row) ==
    /\ \/ queue' = Append(queue, row) /\ astray' = astray
       \/ p \in stale /\ queue' = queue /\ astray' = astray \cup {row}
    /\ stale' = stale \ {p}

\* watch().
Watch(c, w, ttl) ==
    /\ c \in crew
    /\ LastOf(queue, w) = 0
    /\ Append1(c, Row("watch", w, WatchOf[w].action, WatchOf[w].sub, now + ttl, now))
    /\ UNCHANGED <<crew, now, sent, pub, rd, posted, shown, unseen>>

\* unwatch(): the row again, its time stamp included, already over.
Unwatch(c, w) ==
    /\ c \in crew
    /\ LastOf(queue, w) # 0
    /\ queue[LastOf(queue, w)].ends > 0
    /\ Append1(c, [queue[LastOf(queue, w)] EXCEPT !.ends = 0])
    /\ UNCHANGED <<crew, now, sent, pub, rd, posted, shown, unseen>>

\* Whom an announcement goes to: everybody who watches for it, but the host
\* it came from.
Targets(event, exclude) ==
    {<<WatchOf[w].sub, WatchOf[w].action>> :
        w \in {v \in ActiveWatches(queue, now) :
                  event \in WatchOf[v].hears /\ Host(WatchOf[v].sub) # exclude}}

\* publish(): the clock is read and the targets are fixed.
Begin(p, targets, ttl) ==
    /\ p \in crew /\ pub[p] = Idle /\ targets # {}
    /\ pub' = [pub EXCEPT ![p] = [todo |-> targets, aim |-> None, began |-> now,
                                  ends |-> now + ttl]]
    /\ UNCHANGED <<crew, queue, now, stale, sent, rd, posted, astray, shown, unseen>>

Publish(p) ==
    \E ttl \in Ttls :
        \/ \E event \in Events, exclude \in Hosts \cup {None} :
               Begin(p, Targets(event, exclude), ttl)
        \/ \E to \in Direct : Begin(p, {<<to, "advise">>}, ttl)

\* Mutant: one too many.
FullAtLast(a, time) == Cardinality(Pending(queue, a, time)) > MaxPending

Full(a, time) == Cardinality(Pending(queue, a, time)) >= MaxPending

\* publish() returns when no target is left.
Rest(job) == IF job.todo = {} /\ job.aim = None THEN Idle ELSE job

\* Is there room for one more?  Otherwise this target is passed over.
Check(p, t) ==
    /\ t \in pub[p].todo /\ pub[p].aim = None
    /\ pub' = [pub EXCEPT ![p] = Rest([pub[p] EXCEPT
                   !.todo = @ \ {t},
                   !.aim = IF Full(t[1], pub[p].began) THEN None ELSE t])]
    /\ UNCHANGED <<crew, queue, now, stale, sent, rd, posted, astray, shown, unseen>>

Signal(t, ends) == Row("signal", sent + 1, t[2], t[1], ends, now)

\* The signal is queued.
Post(p) ==
    /\ pub[p].aim # None
    /\ sent < MaxSignals[crew]
    /\ Append1(p, Signal(pub[p].aim, pub[p].ends))
    /\ sent' = sent + 1
    /\ posted' = posted \cup {Signal(pub[p].aim, pub[p].ends)}
    /\ pub' = [pub EXCEPT ![p] = Rest([pub[p] EXCEPT !.aim = None])]
    /\ UNCHANGED <<crew, now, rd, shown, unseen>>

\* interrupt(): no look at what is queued already.
Interrupt(c, to, ttl) ==
    /\ c \in crew /\ sent < MaxSignals[crew]
    /\ Append1(c, Signal(<<to, "interrupt">>, now + ttl))
    /\ posted' = posted \cup {Signal(<<to, "interrupt">>, now + ttl)}
    /\ sent' = sent + 1
    /\ UNCHANGED <<crew, now, pub, rd, shown, unseen>>

-----------------------------------------------------------------------------
\* Mutant: the tool result delivers what finished, and nothing else.
StageKindsNoAdvice(stage) ==
    CASE stage \in {"session-start", "pre-invocation", "cli"} -> Kinds
      [] stage \in {"post-tool-use", "acp-prompt"} -> {"report"}
      [] stage \in {"pre-tool-use", "acp-cancel"} -> {"interrupt"}

\* What each stage may deliver: only one that can stop takes an interrupt.
StageKinds(stage) ==
    CASE stage \in {"session-start", "pre-invocation", "cli"} -> Kinds
      [] stage \in {"post-tool-use", "acp-prompt"} -> {"report", "advise"}
      [] stage \in {"pre-tool-use", "acp-cancel"} -> {"interrupt"}

\* Interrupts before the rest, older before newer; no more than the limit.
Before(s, t) ==
    \/ s.kind = "interrupt" /\ t.kind # "interrupt"
    \/ (s.kind = "interrupt" <=> t.kind = "interrupt") /\ s.id < t.id
Picks(a, stage) ==
    LET all == {s \in Pending(queue, a, now) : s.kind \in StageKinds(stage)}
    IN  SubSeq(InOrder(all, {p \in all \X all : Before(p[1], p[2])}), 1,
               IF Cardinality(all) < Limit THEN Cardinality(all) ELSE Limit)

\* drain(): the queue is read.
Read(r, stage) ==
    /\ r \in crew /\ rd[r] = NoDrain /\ stage \in StagesOf[r]
    /\ LET picks == Picks(AddrOf[r], stage)
       IN  /\ picks # <<>>
           /\ rd' = [rd EXCEPT ![r] = [stage |-> stage, picks |-> picks, done |-> 0]]
    /\ UNCHANGED <<crew, queue, now, stale, sent, pub, posted, astray, shown, unseen>>

\* One receipt.
Receipt(r) ==
    /\ rd[r].done < Len(rd[r].picks)
    /\ LET s == rd[r].picks[rd[r].done + 1]
       IN  Append1(r, Row("delivery", s.id, s.kind, AddrOf[r], 0, now))
    /\ rd' = [rd EXCEPT ![r].done = @ + 1]
    /\ UNCHANGED <<crew, now, sent, pub, posted, shown, unseen>>

Taken(r, places) == {<<rd[r].picks[i].id, AddrOf[r]>> : i \in places}

\* All receipts written: the harness gets the text, cut where it is too long.
Return(r) ==
    /\ rd[r] # NoDrain /\ rd[r].done = Len(rd[r].picks)
    /\ shown' = shown \cup Taken(r, {i \in 1..Len(rd[r].picks) : i =< Room})
    /\ unseen' = unseen \cup Taken(r, {i \in 1..Len(rd[r].picks) : i > Room})
    /\ rd' = [rd EXCEPT ![r] = NoDrain]
    /\ UNCHANGED <<crew, queue, now, stale, sent, pub, posted, astray>>

\* _apply_relay_interrupt, of a call of ctx itself: drained, and not shown.
Swallow(r) ==
    /\ rd[r].stage = "pre-tool-use" /\ rd[r].done = Len(rd[r].picks)
    /\ unseen' = unseen \cup Taken(r, 1..Len(rd[r].picks))
    /\ rd' = [rd EXCEPT ![r] = NoDrain]
    /\ UNCHANGED <<crew, queue, now, stale, sent, pub, posted, astray, shown>>

-----------------------------------------------------------------------------
Old(row) == now - row.ts > Keep
Settled(row) == row.ends <= now \/ SeenByAnybody(queue, row, row.addr)

\* Mutant: receipts go first.
DropsReceipts(row) ==
    CASE row.schema = "signal" -> Settled(row) /\ Old(row)
      [] row.schema = "delivery" -> TRUE
      [] row.schema = "watch" -> row.ends <= now /\ Old(row)

\* The rows _compact_locked leaves out.
Drops(row) ==
    CASE row.schema = "signal" -> Settled(row) /\ Old(row)
      [] row.schema = "delivery" -> Old(row)
      [] row.schema = "watch" -> row.ends <= now /\ Old(row)

\* Those who may have opened the file and not written yet: publishers and
\* readers between their look at the queue and their write, and any command.
Appending ==
    {p \in Publishers : pub[p].aim # None} \cup
    {r \in Readers : rd[r].done < Len(rd[r].picks)} \cup
    ((Watchers \cup Stoppers) \cap crew)

\* The rows that stay, as they stood.
Compacted ==
    LET kept == {i \in DOMAIN queue : ~Drops(queue[i])}
        places == InOrder(kept, {p \in kept \X kept : p[1] < p[2]})
    IN  [k \in 1..Cardinality(kept) |-> queue[places[k]]]

\* gc(): under the lock, the file is written anew and put in the old one's
\* place; those who opened the old one and wait for its lock keep it.
Gc ==
    /\ \E row \in ToSet(queue) : Drops(row)
    /\ queue' = Compacted
    /\ stale' = Appending
    /\ UNCHANGED <<crew, now, sent, pub, rd, posted, astray, shown, unseen>>

Tick ==
    /\ now < MaxNow[crew]
    /\ now' = now + 1
    /\ UNCHANGED <<crew, queue, stale, sent, pub, rd, posted, astray, shown, unseen>>

Send(p) == Post(p) \/ \E t \in pub[p].todo : Check(p, t)
Drain(r) == Receipt(r) \/ Return(r) \/ \E stage \in Stages : Read(r, stage)

Next ==
    \/ \E c \in Watchers, w \in Watches : Unwatch(c, w) \/ \E ttl \in Ttls : Watch(c, w, ttl)
    \/ \E p \in Publishers : Publish(p) \/ Send(p)
    \/ \E c \in Stoppers, to \in Stopped, ttl \in Ttls : Interrupt(c, to, ttl)
    \/ \E r \in Readers : Drain(r) \/ Swallow(r)
    \/ Gc
    \/ Tick

Spec == Init /\ [][Next]_vars

\* Every harness goes on making tool calls, and a hook that began ends.
FairSpec == Spec /\ \A r \in Readers : WF_vars(Drain(r))

-----------------------------------------------------------------------------
\* s is in the hands of a reader of r's address, or was drained by one.
Arriving(s, r) ==
    \E x \in Readers :
        /\ s.addr = Star => AddrOf[x] = AddrOf[r]
        /\ s \in ToSet(rd[x].picks) \/ <<s.id, AddrOf[x]>> \in shown \cup unseen

\* However many drain at once, "two processes draining at once cannot lose a
\* signal between them" (relay.py:523-525): until it expires, a signal waits
\* for each of its readers, is in the hands of one, or was drained.  It is
\* lost in three ways only: its append went to a file that gc() was replacing
\* (AppendsKept), a call of ctx itself drained it (unseen), or the text it
\* came in was cut before it (unseen).
NoSignalLost ==
    \A s \in posted, r \in Readers :
        s.addr \in Reach(AddrOf[r]) /\ s.ends > now =>
            s \in Pending(queue, AddrOf[r], now) \cup astray \/ Arriving(s, r)

\* What was queued is in the file until it is over: "Rewrite-in-place under
\* the same lock, so a concurrent append cannot be lost" (relay.py:750-751).
AppendsKept == \A s \in posted : s.ends > now => s \in ToSet(queue)

\* A drain never takes what was shown before it looked, to a sibling session
\* if it was for the host, receipts and signals leaving the file together;
\* unless the receipt went to a file that gc() was replacing ("at worst one is
\* delivered twice", relay.py:524).
ShownTo(s, r) ==
    \E a \in Addresses :
        /\ <<s.id, a>> \in shown /\ (s.addr = Star => a = AddrOf[r])
        /\ ~\E d \in astray : d.schema = "delivery" /\ d.id = s.id /\ d.addr = a
NoRepeat ==
    [][\A r \in Readers : rd[r] = NoDrain =>
          \A i \in DOMAIN rd'[r].picks : ~ShownTo(rd'[r].picks[i], r)]_vars

\* What compaction leaves out "can no longer affect a drain" (relay.py:746),
\* nor bring a retired watch back.
CompactIdle ==
    [][Len(queue') < Len(queue) =>
          /\ \A a \in Addresses : Pending(queue', a, now) = Pending(queue, a, now)
          /\ ActiveWatches(queue', now) = ActiveWatches(queue, now)]_vars

\* However many publish at once, an address holds at most the limit of
\* advisories, and one more for each of the others.
AddressCap ==
    \A a \in Addresses :
        Cardinality({s \in Pending(queue, a, now) : s.addr = a /\ s.kind # "interrupt"})
            <= MaxPending + Cardinality(Publishers) - 1

\* Signals in the file for somebody at work that nobody was shown yet; drained
\* without that counts for an interrupt (a call of ctx took it), and for any
\* where a text may be cut.
Waiting ==
    {s \in posted \ astray :
        /\ s.ends > now
        /\ \E r \in Readers \cap crew : s.addr \in Reach(AddrOf[r])
        /\ ~\E a \in Addresses :
              \/ <<s.id, a>> \in shown
              \/ <<s.id, a>> \in unseen /\ (s.kind = "interrupt" \/ Limit > Room)}

\* Signals for a harness that goes on working get through or expire, whatever
\* interrupts come before them and however few a drain takes: when no more are
\* sent (after MaxSignals), none is left waiting.
SignalsArrive == Waiting # {} ~> Waiting = {}
=============================================================================
