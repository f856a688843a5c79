--------------------------- MODULE TurnStreamProofs ---------------------------
(* What TLAPS proves of TurnStream for every number of turns, items, texts  *)
(* and calls, the implementation of Transcript included.                    *)
EXTENDS TurnStream, TLAPS, SequenceTheorems

(* The index names every entry, at its place, and nothing else.             *)
Agree(calls, idx) ==
  /\ \A n \in DOMAIN calls : calls[n].id \in DOMAIN idx /\ idx[calls[n].id] = n
  /\ \A i \in DOMAIN idx : idx[i] \in DOMAIN calls /\ calls[idx[i]].id = i

(* The entries that turn t shows so far, whether or not it has a message.   *)
CallsOf(t) == EnsureAssistant(t).calls

IndexTrue(t) == Len(CallsOf(t)) <= MaxCalls /\ Agree(CallsOf(t), toolIdx[t])

(* What is taken from the file is for a turn that has shown nothing.        *)
FinalForNone(t) ==
  worker[t].pc = "closing" /\ worker[t].final # None => message[t] = None

Inv == TypeOK /\ \A t \in Turns : IndexTrue(t) /\ FinalForNone(t)

(* What a reader is shown of the entries.                                   *)
Pairs(calls) == {<<e.id, e.status>> : e \in Range(calls)}

-----------------------------------------------------------------------------
(* An entry that is there already is replaced where it is ...               *)
LEMMA UpsertOld ==
  ASSUME NEW calls \in Seq(Entry), NEW idx, Agree(calls, idx),
         NEW e \in Entry, e.id \in DOMAIN idx
  PROVE  LET new == Upsert(calls, idx, e)
         IN /\ new \in Seq(Entry) /\ DOMAIN new = DOMAIN calls /\ Len(new) = Len(calls)
            /\ \A n \in DOMAIN calls : new[n].id = calls[n].id
            /\ Agree(new, Indexed(calls, idx, e.id))
            /\ Pairs(new) = {c \in Pairs(calls) : c[1] # e.id} \cup {<<e.id, e.status>>}
<1> DEFINE new == Upsert(calls, idx, e)
           k == idx[e.id]
<1>1. k \in DOMAIN calls /\ calls[k].id = e.id
  BY DEF Agree
<1>2. new = [calls EXCEPT ![k] = e]
  BY DEF Upsert
<1>3. new \in Seq(Entry) /\ DOMAIN new = DOMAIN calls /\ Len(new) = Len(calls)
  BY <1>1, <1>2
<1>4. new[k] = e /\ \A n \in DOMAIN calls \ {k} : new[n] = calls[n]
  BY <1>1, <1>2
<1>5. \A n \in DOMAIN calls : new[n].id = calls[n].id
  BY <1>1, <1>4
<1>6. \A n \in DOMAIN calls : calls[n].id = e.id => n = k
  BY <1>1 DEF Agree
<1> HIDE DEF new, k
<1>7. Agree(new, Indexed(calls, idx, e.id))
  BY <1>3, <1>5 DEF Agree, Indexed
<1>8. Pairs(new) = {c \in Pairs(calls) : c[1] # e.id} \cup {<<e.id, e.status>>}
  <2>1. Pairs(new) = {<<new[n].id, new[n].status>> : n \in DOMAIN calls}
    BY <1>3 DEF Pairs, Range
  <2>2. Pairs(calls) = {<<calls[n].id, calls[n].status>> : n \in DOMAIN calls}
    BY DEF Pairs, Range
  <2>3. ASSUME NEW c \in Pairs(new)
        PROVE  c \in {d \in Pairs(calls) : d[1] # e.id} \cup {<<e.id, e.status>>}
    BY <1>4, <1>6, <2>1, <2>2
  <2>4. ASSUME NEW c \in Pairs(calls), c[1] # e.id
        PROVE  c \in Pairs(new)
    BY <1>1, <1>4, <2>1, <2>2, <2>4
  <2>5. <<e.id, e.status>> \in Pairs(new)
    BY <1>1, <1>4, <2>1
  <2> QED BY <2>3, <2>4, <2>5
<1> QED BY <1>3, <1>5, <1>7, <1>8 DEF new

(* ... and one that is not is added at the end.                             *)
LEMMA UpsertNew ==
  ASSUME NEW calls \in Seq(Entry), NEW idx, Agree(calls, idx),
         NEW e \in Entry, e.id \notin DOMAIN idx
  PROVE  LET new == Upsert(calls, idx, e)
         IN /\ new \in Seq(Entry) /\ Len(new) = Len(calls) + 1
            /\ DOMAIN calls \subseteq DOMAIN new
            /\ \A n \in DOMAIN calls : new[n].id = calls[n].id
            /\ Agree(new, Indexed(calls, idx, e.id))
            /\ Pairs(new) = {c \in Pairs(calls) : c[1] # e.id} \cup {<<e.id, e.status>>}
<1> DEFINE new == Upsert(calls, idx, e)
           k == Len(calls) + 1
<1>1. new = Append(calls, e)
  BY DEF Upsert
<1>2. new \in Seq(Entry) /\ Len(new) = k /\ DOMAIN new = DOMAIN calls \cup {k}
  BY <1>1
<1>3. k \notin DOMAIN calls /\ new[k] = e /\ \A n \in DOMAIN calls : new[n] = calls[n]
  BY <1>1
<1>4. \A n \in DOMAIN calls : calls[n].id # e.id
  BY DEF Agree
<1> HIDE DEF new, k
<1>5. Agree(new, Indexed(calls, idx, e.id))
  <2>1. Indexed(calls, idx, e.id)
          = [i \in DOMAIN idx \cup {e.id} |-> IF i = e.id THEN k ELSE idx[i]]
    BY DEF Indexed, k
  <2> QED BY <1>2, <1>3, <1>4, <2>1 DEF Agree
<1>6. Pairs(new) = {c \in Pairs(calls) : c[1] # e.id} \cup {<<e.id, e.status>>}
  <2>1. Pairs(new) = {<<new[n].id, new[n].status>> : n \in DOMAIN calls \cup {k}}
    BY <1>2 DEF Pairs, Range
  <2>2. Pairs(calls) = {<<calls[n].id, calls[n].status>> : n \in DOMAIN calls}
    BY DEF Pairs, Range
  <2> QED BY <1>3, <1>4, <2>1, <2>2
<1> QED BY <1>2, <1>3, <1>5, <1>6 DEF new, k

-----------------------------------------------------------------------------
(* What the invariant says of one turn.                                     *)
LEMMA TurnTyped ==
  ASSUME Inv, NEW t \in Turns
  PROVE  /\ EnsureAssistant(t) \in Message
         /\ CallsOf(t) \in Seq(Entry) /\ CallsOf(t) = EnsureAssistant(t).calls
         /\ message[t] = None => CallsOf(t) = << >> /\ EnsureAssistant(t).body = None
         /\ message[t] # None => message[t] \in Message /\ EnsureAssistant(t) = message[t]
         /\ Agree(CallsOf(t), toolIdx[t]) /\ Len(CallsOf(t)) <= MaxCalls
         /\ DOMAIN toolIdx[t] \subseteq EntryIds
         /\ worker[t] \in Worker
<1>1. << >> \in Seq(Entry)
  OBVIOUS
<1> QED BY <1>1 DEF Inv, TypeOK, IndexTrue, CallsOf, EnsureAssistant, NoCalls, Message

(* A message in place of turn t's, with a text or with entries changed.     *)
LEMMA MessageSet ==
  ASSUME Inv, NEW t \in Turns, NEW m \in Message, message' = [message EXCEPT ![t] = m]
  PROVE  /\ message' \in [Turns -> Message \cup {None}]
         /\ message'[t] = m /\ m # None
         /\ CallsOf(t)' = m.calls
         /\ \A u \in Turns \ {t} : message'[u] = message[u] /\ CallsOf(u)' = CallsOf(u)
BY NoneIsNoMessage DEF Inv, TypeOK, CallsOf, EnsureAssistant

(* What HearCall does to its turn: message m shows entry e, the entries that *)
(* were shown before stay in their places, and the index follows.           *)
CallShown(t, e, m) ==
  /\ message' = [message EXCEPT ![t] = m]
  /\ m.body = EnsureAssistant(t).body
  /\ Len(m.calls) <= MaxCalls /\ DOMAIN CallsOf(t) \subseteq DOMAIN m.calls
  /\ \A n \in DOMAIN CallsOf(t) : m.calls[n].id = CallsOf(t)[n].id
  /\ toolIdx' = [toolIdx EXCEPT ![t] = toolIdx'[t]]
  /\ Agree(m.calls, toolIdx'[t]) /\ DOMAIN toolIdx'[t] \subseteq EntryIds
  /\ toolIdx'[t] = [i \in DOMAIN toolIdx'[t] |-> toolIdx'[t][i]]
  /\ Pairs(m.calls) = {c \in Pairs(CallsOf(t)) : c[1] # e.id} \cup {<<e.id, e.status>>}

LEMMA CallHeard ==
  ASSUME Inv, NEW t \in Turns, NEW item \in Items \cup {None}, NEW word \in Words,
         HearCall(t, item, word)
  PROVE  \E e \in Entry, m \in Message : CallShown(t, e, m)
<1> DEFINE rec == EnsureAssistant(t)
           e   == [id |-> EntryId(item, rec.calls), status |-> MapStatus(word)]
           new == Upsert(rec.calls, toolIdx[t], e)
           m   == [rec EXCEPT !.calls = new]
           idx == Indexed(rec.calls, toolIdx[t], e.id)
<1>1. /\ rec \in Message /\ rec.calls \in Seq(Entry) /\ rec.calls = CallsOf(t)
      /\ Agree(rec.calls, toolIdx[t]) /\ Len(rec.calls) <= MaxCalls
      /\ DOMAIN toolIdx[t] \subseteq EntryIds
  BY TurnTyped
<1>2. /\ Len(rec.calls) < MaxCalls \/ e.id \in DOMAIN toolIdx[t]
      /\ message' = [message EXCEPT ![t] = [rec EXCEPT !.calls = Upsert(@, toolIdx[t], e)]]
      /\ toolIdx' = [toolIdx EXCEPT ![t] = Indexed(rec.calls, @, e.id)]
  BY DEF HearCall
<1>3. e \in Entry
  <2>1. MapStatus(word) \in Statuses
    BY DEF MapStatus, Statuses, Words
  <2>2. e.id \in EntryIds
    <3>1. CASE e.id \in DOMAIN toolIdx[t]
      BY <1>1, <3>1
    <3>2. CASE item # None
      BY <3>2 DEF EntryId, EntryIds
    <3>3. CASE item = None /\ Len(rec.calls) < MaxCalls
      <4>1. e.id = Len(rec.calls) /\ Len(rec.calls) \in Nat
        BY <1>1, <3>3 DEF EntryId
      <4> QED BY <3>3, <4>1, MaxCallsIsNat DEF EntryIds
    <3> QED BY <1>2, <3>1, <3>2, <3>3
  <2> QED BY <2>1, <2>2 DEF Entry
<1>4. message' = [message EXCEPT ![t] = m]
  BY <1>2
<1>5. toolIdx'[t] = idx /\ toolIdx' = [toolIdx EXCEPT ![t] = idx]
  <2>1. toolIdx = [u \in Turns |-> toolIdx[u]]
    BY DEF Inv, TypeOK
  <2> QED BY <1>2, <2>1
<1> HIDE DEF e
<1>6. /\ new \in Seq(Entry) /\ Len(new) <= MaxCalls
      /\ DOMAIN rec.calls \subseteq DOMAIN new
      /\ \A n \in DOMAIN rec.calls : new[n].id = rec.calls[n].id
      /\ Agree(new, idx)
      /\ Pairs(new) = {c \in Pairs(rec.calls) : c[1] # e.id} \cup {<<e.id, e.status>>}
  <2>1. CASE e.id \in DOMAIN toolIdx[t]
    BY <1>1, <1>3, <2>1, UpsertOld
  <2>2. CASE e.id \notin DOMAIN toolIdx[t]
    <3>1. Len(rec.calls) + 1 <= MaxCalls
      BY <1>1, <1>2, <2>2, MaxCallsIsNat
    <3> QED BY <1>1, <1>3, <2>2, <3>1, UpsertNew
  <2> QED BY <2>1, <2>2
<1>7. DOMAIN idx \subseteq EntryIds /\ idx = [i \in DOMAIN idx |-> idx[i]]
  <2>1. toolIdx[t] = [i \in DOMAIN toolIdx[t] |-> toolIdx[t][i]]
    BY DEF Inv, TypeOK
  <2> QED BY <1>1, <1>3, <2>1 DEF Indexed, Entry
<1>8. m \in Message /\ m.calls = new /\ m.body = rec.body
  BY <1>1, <1>6 DEF Message
<1> HIDE DEF rec, new, m, idx
<1>9. e \in Entry /\ m \in Message
  BY <1>3, <1>8
<1>10. rec.calls = CallsOf(t) /\ rec.body = EnsureAssistant(t).body
  BY <1>1 DEF rec
<1>11. CallShown(t, e, m)
  BY <1>4, <1>5, <1>6, <1>7, <1>8, <1>10 DEF CallShown
<1> QED BY <1>9, <1>11

-----------------------------------------------------------------------------
(* The threads: a write of the session row dooms others' closing, and       *)
(* changes nothing else of them.                                            *)
LEMMA OvertakenTyped ==
  ASSUME NEW w \in Worker
  PROVE  Overtaken(w) \in Worker /\ Overtaken(w).pc = w.pc /\ Overtaken(w).final = w.final
BY DEF Overtaken, Worker

LEMMA SessionWritten ==
  ASSUME TypeOK, NEW r \in BOOLEAN, NEW t \in Turns, NEW w \in Worker, WriteSession(r, t, w)
  PROVE  /\ running' \in BOOLEAN /\ worker' \in [Turns -> Worker] /\ worker'[t] = w
         /\ \A u \in Turns \ {t} : /\ worker'[u].pc = worker[u].pc
                                   /\ worker'[u].final = worker[u].final
<1>1. /\ worker' = [u \in Turns |-> IF u = t THEN w ELSE Overtaken(worker[u])]
      /\ running' = r
  BY DEF WriteSession
<1>2. \A u \in Turns : worker[u] \in Worker
  BY DEF TypeOK
<1>3. \A u \in Turns : worker'[u] \in Worker
  BY <1>1, <1>2, OvertakenTyped
<1>4. worker' \in [Turns -> Worker]
  BY <1>1, <1>3
<1> QED BY <1>1, <1>2, <1>4, OvertakenTyped

LEMMA GotoTyped ==
  ASSUME TypeOK, NEW t \in Turns, NEW pc \in {"reading", "closing", "failed", "over"}
  PROVE  /\ Goto(t, pc) \in Worker /\ Goto(t, pc).pc = pc
         /\ Ended(t, pc) \in Worker /\ Ended(t, pc).pc = pc
BY DEF TypeOK, Worker, Goto, Ended

LEMMA FinalTyped ==
  ASSUME NEW w \in Worker, NEW x \in Texts \cup {None}
  PROVE  /\ [w EXCEPT !.final = x] \in Worker /\ [w EXCEPT !.final = x].pc = w.pc
         /\ [w EXCEPT !.final = x].final = x
BY DEF Worker

(* What a step makes of the threads.                                        *)
Stays(t) == worker'[t].pc = worker[t].pc /\ worker'[t].final = worker[t].final

Moves(t, from, to) ==
  /\ worker[t].pc \in from /\ worker'[t].pc = to
  /\ \A u \in Turns \ {t} : Stays(u)

ThreadsTyped ==
  running \in BOOLEAN /\ worker \in [Turns -> Worker] /\ file \in Texts \cup {None}

LEMMA ThreadSteps ==
  ASSUME Inv, [Next]_vars
  PROVE  /\ ThreadsTyped'
         /\ Interrupt => \A u \in Turns : Stays(u)
         /\ \A t \in Turns :
              /\ Send(t) => Moves(t, {"none"}, "reading")
              /\ HearItem(t) => \A u \in Turns : Stays(u)
              /\ HearTurnEnd(t) => \A u \in Turns : Stays(u)
              /\ FailRun(t) \/ Die(t) => Moves(t, {"reading"}, "failed")
              /\ (\E x \in Texts : CliWritesFinal(t, x)) => \A u \in Turns : Stays(u)
              /\ FinishBegin(t) => /\ Moves(t, {"reading"}, "closing")
                                   /\ worker'[t].final = Fallback(t)
              /\ FinishCommit(t) => Moves(t, {"closing"}, "over")
              /\ FinishConflict(t) => Moves(t, {"closing"}, "failed")
<1>0. /\ TypeOK /\ running \in BOOLEAN /\ worker \in [Turns -> Worker]
      /\ file \in Texts \cup {None}
      /\ \A t \in Turns : Fallback(t) \in Texts \cup {None}
  BY DEF Inv, TypeOK, Fallback
<1>a. UNCHANGED vars => ThreadsTyped'
  BY <1>0 DEF vars, ThreadsTyped
<1>1. ASSUME Interrupt
      PROVE  ThreadsTyped' /\ \A u \in Turns : Stays(u)
  <2>1. worker' = [u \in Turns |-> Overtaken(worker[u])] /\ running' = FALSE /\ file' = file
    BY <1>1 DEF Interrupt
  <2>2. \A u \in Turns : worker'[u] \in Worker /\ Stays(u)
    BY <1>0, <2>1, OvertakenTyped DEF Stays
  <2>3. worker' \in [Turns -> Worker]
    BY <2>1, <2>2
  <2> QED BY <1>0, <2>1, <2>2, <2>3 DEF ThreadsTyped
<1>2. ASSUME NEW t \in Turns, Send(t)
      PROVE  ThreadsTyped' /\ Moves(t, {"none"}, "reading")
  <2>1. WriteSession(TRUE, t, Goto(t, "reading")) /\ worker[t].pc = "none" /\ file' = file
    BY <1>2 DEF Send
  <2>2. Goto(t, "reading") \in Worker /\ Goto(t, "reading").pc = "reading"
    BY <1>0, GotoTyped
  <2> QED BY <1>0, <2>1, <2>2, SessionWritten DEF Moves, Stays, ThreadsTyped
<1>3. ASSUME NEW t \in Turns, HearItem(t) \/ \E x \in Texts : CliWritesFinal(t, x)
      PROVE  ThreadsTyped' /\ \A u \in Turns : Stays(u)
  <2>1. running' = running /\ worker' = worker /\ (file' = file \/ file' \in Texts)
    BY <1>3 DEF HearItem, HearText, HearCall, CliWritesFinal
  <2> QED BY <1>0, <2>1 DEF Stays, ThreadsTyped
<1>4. ASSUME NEW t \in Turns, HearTurnEnd(t)
      PROVE  ThreadsTyped' /\ \A u \in Turns : Stays(u)
  <2>1. /\ running' \in BOOLEAN /\ worker' \in [Turns -> Worker] /\ worker'[t] = worker[t]
        /\ \A u \in Turns \ {t} : Stays(u)
    BY <1>0, <1>4, SessionWritten DEF HearTurnEnd, Stays
  <2> QED BY <1>0, <1>4, <2>1 DEF HearTurnEnd, Stays, ThreadsTyped
<1>5. ASSUME NEW t \in Turns, FailRun(t)
      PROVE  ThreadsTyped' /\ Moves(t, {"reading"}, "failed")
  <2>1. WriteSession(FALSE, t, Goto(t, "failed")) /\ worker[t].pc = "reading" /\ file' = file
    BY <1>5 DEF FailRun, Reading
  <2>2. Goto(t, "failed") \in Worker /\ Goto(t, "failed").pc = "failed"
    BY <1>0, GotoTyped
  <2> QED BY <1>0, <2>1, <2>2, SessionWritten DEF Moves, Stays, ThreadsTyped
<1>6. ASSUME NEW t \in Turns, Die(t)
      PROVE  ThreadsTyped' /\ Moves(t, {"reading"}, "failed")
  <2>1. Goto(t, "failed") \in Worker /\ Goto(t, "failed").pc = "failed"
    BY <1>0, GotoTyped
  <2> QED BY <1>0, <1>6, <2>1 DEF Die, Reading, Moves, Stays, ThreadsTyped
<1>7. ASSUME NEW t \in Turns, FinishBegin(t)
      PROVE  ThreadsTyped' /\ Moves(t, {"reading"}, "closing") /\ worker'[t].final = Fallback(t)
  <2>1. Goto(t, "closing") \in Worker /\ Goto(t, "closing").pc = "closing"
    BY <1>0, GotoTyped
  <2>2. /\ [Goto(t, "closing") EXCEPT !.final = Fallback(t)] \in Worker
        /\ [Goto(t, "closing") EXCEPT !.final = Fallback(t)].pc = "closing"
        /\ [Goto(t, "closing") EXCEPT !.final = Fallback(t)].final = Fallback(t)
    BY <1>0, <2>1, FinalTyped
  <2>3. /\ worker[t].pc = "reading" /\ running' = running /\ file' = file
        /\ worker' = [worker EXCEPT ![t] = [Goto(t, "closing") EXCEPT !.final = Fallback(t)]]
    BY <1>7 DEF FinishBegin, Reading
  <2> QED BY <1>0, <2>2, <2>3 DEF Moves, Stays, ThreadsTyped
<1>8. ASSUME NEW t \in Turns, FinishCommit(t)
      PROVE  ThreadsTyped' /\ Moves(t, {"closing"}, "over")
  <2>1. /\ worker[t].pc = "closing" /\ file' = None /\ WriteSession(FALSE, t, Ended(t, "over"))
    BY <1>8 DEF FinishCommit
  <2>2. Ended(t, "over") \in Worker /\ Ended(t, "over").pc = "over"
    BY <1>0, GotoTyped
  <2> QED BY <1>0, <2>1, <2>2, SessionWritten DEF Moves, Stays, ThreadsTyped
<1>9. ASSUME NEW t \in Turns, FinishConflict(t)
      PROVE  ThreadsTyped' /\ Moves(t, {"closing"}, "failed")
  <2>1. Ended(t, "failed") \in Worker /\ Ended(t, "failed").pc = "failed"
    BY <1>0, GotoTyped
  <2>2. /\ worker[t].pc = "closing" /\ file' = None /\ running' = running
        /\ worker' = [worker EXCEPT ![t] = Ended(t, "failed")]
    BY <1>9 DEF FinishConflict
  <2> QED BY <1>0, <2>1, <2>2 DEF Moves, Stays, ThreadsTyped
<1> QED BY <1>a, <1>1, <1>2, <1>3, <1>4, <1>5, <1>6, <1>7, <1>8, <1>9 DEF Next

-----------------------------------------------------------------------------
(* What a step makes of the messages: nothing, or the text of one message   *)
(* is set, its entries staying as they are, or an entry of one is shown.    *)
TextShown(t, m) ==
  /\ message' = [message EXCEPT ![t] = m] /\ m.calls = CallsOf(t)
  /\ toolIdx' = toolIdx

LEMMA TextSet ==
  ASSUME Inv, NEW t \in Turns, NEW x \in Texts \cup {None}
  PROVE  /\ [EnsureAssistant(t) EXCEPT !.body = x] \in Message
         /\ [EnsureAssistant(t) EXCEPT !.body = x].body = x
         /\ [EnsureAssistant(t) EXCEPT !.body = x].calls = CallsOf(t)
<1>1. EnsureAssistant(t) \in Message /\ CallsOf(t) = EnsureAssistant(t).calls
  BY TurnTyped
<1> QED BY <1>1 DEF Message

LEMMA MessageSteps ==
  ASSUME Inv, [Next]_vars
  PROVE  \/ UNCHANGED <<message, toolIdx>>
         \/ \E t \in Turns : /\ worker'[t].pc # "closing"
                             /\ \/ \E m \in Message : TextShown(t, m)
                                \/ \E e \in Entry, m \in Message : CallShown(t, e, m)
<1>0. \A t \in Turns : EnsureAssistant(t) \in Message /\ EnsureAssistant(t).calls = CallsOf(t)
  BY TurnTyped
<1>1. ASSUME NEW t \in Turns, NEW x \in Texts, HearText(t, x)
      PROVE  worker'[t].pc # "closing" /\ \E m \in Message : TextShown(t, m)
  <2>1. TextShown(t, [EnsureAssistant(t) EXCEPT !.body = x])
    BY <1>1, TextSet DEF HearText, TextShown
  <2>2. worker'[t].pc # "closing"
    BY <1>1 DEF HearText, Reading
  <2> QED BY <2>1, <2>2, TextSet
<1>2. ASSUME NEW t \in Turns, NEW item \in Items \cup {None}, NEW word \in Words,
             HearCall(t, item, word)
      PROVE  worker'[t].pc # "closing" /\ \E e \in Entry, m \in Message : CallShown(t, e, m)
  <2>1. worker'[t].pc # "closing"
    BY <1>2 DEF HearCall, Reading
  <2> QED BY <1>2, <2>1, CallHeard
<1>3. ASSUME NEW t \in Turns, FailRun(t)
      PROVE  \/ UNCHANGED <<message, toolIdx>>
             \/ worker'[t].pc # "closing" /\ \E m \in Message : TextShown(t, m)
  <2>1. worker'[t].pc = "failed"
    BY <1>3, ThreadSteps DEF Next, Moves
  <2>2. CASE message' = message
    BY <1>3, <2>2 DEF FailRun
  <2>3. CASE message' = [message EXCEPT ![t] = EnsureAssistant(t)]
    <3>1. TextShown(t, EnsureAssistant(t))
      BY <1>0, <1>3, <2>3 DEF FailRun, TextShown
    <3> QED BY <1>0, <2>1, <3>1
  <2> QED BY <1>3, <2>2, <2>3 DEF FailRun
<1>4. ASSUME NEW t \in Turns, FinishCommit(t)
      PROVE  \/ UNCHANGED <<message, toolIdx>>
             \/ worker'[t].pc # "closing" /\ \E m \in Message : TextShown(t, m)
  <2>1. worker'[t].pc = "over"
    BY <1>4, ThreadSteps DEF Next, Moves
  <2>2. CASE worker[t].final = None
    BY <1>4, <2>2 DEF FinishCommit
  <2>3. CASE worker[t].final # None
    <3>1. worker[t].final \in Texts
      BY <2>3, TurnTyped DEF Worker
    <3>2. TextShown(t, [EnsureAssistant(t) EXCEPT !.body = worker[t].final])
      BY <1>4, <2>3, <3>1, TextSet DEF FinishCommit, TextShown
    <3> QED BY <2>1, <3>1, <3>2, TextSet
  <2> QED BY <2>2, <2>3
<1>5. ASSUME \/ Interrupt \/ UNCHANGED vars
             \/ \E t \in Turns : \/ Send(t) \/ HearTurnEnd(t) \/ Die(t) \/ FinishBegin(t)
                                 \/ FinishConflict(t)
                                 \/ \E x \in Texts : CliWritesFinal(t, x)
      PROVE  UNCHANGED <<message, toolIdx>>
  BY <1>5 DEF Interrupt, vars, Send, HearTurnEnd, Die, FinishBegin, FinishConflict,
              CliWritesFinal
<1> QED BY <1>1, <1>2, <1>3, <1>4, <1>5 DEF Next, HearItem

LEMMA IndexStep ==
  ASSUME Inv, [Next]_vars
  PROVE  /\ message' \in [Turns -> Message \cup {None}]
         /\ toolIdx' = [t \in Turns |-> toolIdx'[t]]
         /\ \A t \in Turns : \E S \in SUBSET EntryIds : toolIdx'[t] \in [S -> 1 .. MaxCalls]
         /\ \A t \in Turns : IndexTrue(t)'
<1>0. /\ message \in [Turns -> Message \cup {None}]
      /\ toolIdx = [t \in Turns |-> toolIdx[t]]
      /\ \A t \in Turns : \E S \in SUBSET EntryIds : toolIdx[t] \in [S -> 1 .. MaxCalls]
      /\ \A t \in Turns : IndexTrue(t)
  BY DEF Inv, TypeOK
<1>1. CASE UNCHANGED <<message, toolIdx>>
  BY <1>0, <1>1 DEF IndexTrue, CallsOf, EnsureAssistant
<1>2. ASSUME NEW t \in Turns, NEW m \in Message, TextShown(t, m)
      PROVE  /\ message' \in [Turns -> Message \cup {None}] /\ toolIdx' = toolIdx
             /\ \A u \in Turns : IndexTrue(u)'
  <2>1. /\ message' \in [Turns -> Message \cup {None}] /\ toolIdx' = toolIdx
        /\ \A u \in Turns : CallsOf(u)' = CallsOf(u)
    BY <1>2, MessageSet DEF TextShown
  <2> QED BY <1>0, <2>1 DEF IndexTrue
<1>3. ASSUME NEW t \in Turns, NEW e \in Entry, NEW m \in Message, CallShown(t, e, m)
      PROVE  /\ message' \in [Turns -> Message \cup {None}]
             /\ toolIdx' = [u \in Turns |-> toolIdx'[u]]
             /\ \A u \in Turns : \E S \in SUBSET EntryIds : toolIdx'[u] \in [S -> 1 .. MaxCalls]
             /\ \A u \in Turns : IndexTrue(u)'
  <2>1. /\ message' \in [Turns -> Message \cup {None}] /\ CallsOf(t)' = m.calls
        /\ \A u \in Turns \ {t} : CallsOf(u)' = CallsOf(u)
    BY <1>3, MessageSet DEF CallShown
  <2>2. toolIdx' = [u \in Turns |-> IF u = t THEN toolIdx'[t] ELSE toolIdx[u]]
    BY <1>0, <1>3 DEF CallShown
  <2>3. toolIdx'[t] \in [DOMAIN toolIdx'[t] -> 1 .. MaxCalls]
    <3>1. \A i \in DOMAIN toolIdx'[t] : toolIdx'[t][i] \in 1 .. MaxCalls
      <4>1. m.calls \in Seq(Entry) /\ Len(m.calls) <= MaxCalls
        BY <1>3 DEF CallShown, Message
      <4>2. DOMAIN m.calls \subseteq 1 .. MaxCalls
        BY <4>1, MaxCallsIsNat
      <4> QED BY <1>3, <4>2 DEF CallShown, Agree
    <3> QED BY <1>3, <3>1 DEF CallShown
  <2>4. \A u \in Turns \ {t} : toolIdx'[u] = toolIdx[u]
    BY <2>2
  <2>5. \A u \in Turns : \E S \in SUBSET EntryIds : toolIdx'[u] \in [S -> 1 .. MaxCalls]
    BY <1>0, <1>3, <2>3, <2>4 DEF CallShown
  <2>6. IndexTrue(t)'
    BY <1>3, <2>1 DEF IndexTrue, CallShown
  <2>7. \A u \in Turns \ {t} : IndexTrue(u)'
    BY <1>0, <2>1, <2>4 DEF IndexTrue
  <2>8. toolIdx' = [u \in Turns |-> toolIdx'[u]]
    BY <2>2
  <2> QED BY <2>1, <2>5, <2>6, <2>7, <2>8
<1> QED BY <1>0, <1>1, <1>2, <1>3, MessageSteps

LEMMA FinalStep ==
  ASSUME Inv, [Next]_vars, NEW u \in Turns
  PROVE  FinalForNone(u)'
<1> SUFFICES ASSUME worker'[u].pc = "closing", worker'[u].final # None
             PROVE  message'[u] = None
  BY DEF FinalForNone
<1>1. message'[u] = message[u]
  BY MessageSteps, MessageSet DEF TextShown, CallShown
<1>2. message[u] = None
  <2>1. CASE Stays(u)
    BY <2>1 DEF Stays, Inv, FinalForNone
  <2>2. CASE FinishBegin(u)
    BY <2>2, ThreadSteps DEF Next, Fallback
  <2>3. CASE ~Stays(u) /\ ~FinishBegin(u)
    BY <2>3, ThreadSteps DEF Next, Moves, Stays, vars
  <2> QED BY <2>1, <2>2, <2>3
<1> QED BY <1>1, <1>2

-----------------------------------------------------------------------------
LEMMA InvInit == Init => Inv
<1> SUFFICES ASSUME Init
             PROVE  Inv
  OBVIOUS
<1>1. TypeOK
  <2>1. [pc |-> "none", final |-> None, doomed |-> FALSE] \in Worker
    BY DEF Worker
  <2>2. \A t \in Turns : toolIdx[t] \in [{} -> 1 .. MaxCalls]
    BY DEF Init
  <2> QED BY <2>1, <2>2 DEF Init, TypeOK
<1>2. ASSUME NEW t \in Turns
      PROVE  IndexTrue(t) /\ FinalForNone(t)
  <2>1. CallsOf(t) = << >> /\ toolIdx[t] = << >>
    BY DEF Init, CallsOf, EnsureAssistant, NoCalls
  <2>2. worker[t].pc = "none"
    BY DEF Init
  <2> QED BY <2>1, <2>2, MaxCallsIsNat DEF IndexTrue, Agree, FinalForNone
<1> QED BY <1>1, <1>2 DEF Inv

LEMMA InvStep == Inv /\ [Next]_vars => Inv'
<1> SUFFICES ASSUME Inv, [Next]_vars
             PROVE  Inv'
  OBVIOUS
<1>1. TypeOK'
  BY ThreadSteps, IndexStep DEF TypeOK, ThreadsTyped
<1> QED BY <1>1, IndexStep, FinalStep DEF Inv

LEMMA InvAlways == Spec => []Inv
BY InvInit, InvStep, PTL DEF Spec

(* Every variable keeps its type, for any number of overlapping turns.      *)
THEOREM StreamTypesKept == Spec => []TypeOK
<1>1. Inv => TypeOK
  BY DEF Inv
<1> QED BY <1>1, InvAlways, PTL

(* A tool call that a reader has seen stays in its place in its message,    *)
(* whatever later events, other turns and the end of the run do.            *)
THEOREM EntriesAlwaysStay == Spec => EntriesStay
<1>1. ASSUME Inv, [Next]_vars
      PROVE  \A t \in Turns : message[t] # None =>
               /\ message'[t] # None
               /\ \A n \in DOMAIN message[t].calls :
                    /\ n \in DOMAIN message'[t].calls
                    /\ message'[t].calls[n].id = message[t].calls[n].id
  <2> SUFFICES ASSUME NEW u \in Turns, message[u] # None
               PROVE  /\ message'[u] # None
                      /\ \A n \in DOMAIN message[u].calls :
                           /\ n \in DOMAIN message'[u].calls
                           /\ message'[u].calls[n].id = message[u].calls[n].id
    OBVIOUS
  <2>0. CallsOf(u) = message[u].calls
    BY DEF CallsOf, EnsureAssistant
  <2>1. CASE message'[u] = message[u]
    BY <2>1
  <2>2. ASSUME NEW m \in Message, TextShown(u, m)
        PROVE  message'[u] # None /\ message'[u].calls = message[u].calls
    <3>1. message'[u] = m /\ m # None
      BY <1>1, <2>2, MessageSet DEF TextShown
    <3> QED BY <2>0, <2>2, <3>1 DEF TextShown
  <2>3. ASSUME NEW e \in Entry, NEW m \in Message, CallShown(u, e, m)
        PROVE  /\ message'[u] # None
               /\ \A n \in DOMAIN message[u].calls :
                    /\ n \in DOMAIN message'[u].calls
                    /\ message'[u].calls[n].id = message[u].calls[n].id
    <3>1. message'[u] = m /\ m # None
      BY <1>1, <2>3, MessageSet DEF CallShown
    <3> QED BY <2>0, <2>3, <3>1 DEF CallShown
  <2>4. \/ message'[u] = message[u]
        \/ \E m \in Message : TextShown(u, m)
        \/ \E e \in Entry, m \in Message : CallShown(u, e, m)
    <3>1. ASSUME NEW t \in Turns \ {u}, NEW m \in Message, message' = [message EXCEPT ![t] = m]
          PROVE  message'[u] = message[u]
      BY <1>1, <3>1, MessageSet
    <3>2. ASSUME NEW t \in Turns, NEW m \in Message,
                 TextShown(t, m) \/ \E e \in Entry : CallShown(t, e, m)
          PROVE  t = u \/ message'[u] = message[u]
      BY <3>1, <3>2 DEF TextShown, CallShown
    <3>3. CASE UNCHANGED <<message, toolIdx>>
      BY <3>3
    <3>4. CASE \E t \in Turns, m \in Message :
                 TextShown(t, m) \/ \E e \in Entry : CallShown(t, e, m)
      BY <3>2, <3>4
    <3> QED BY <1>1, <3>3, <3>4, MessageSteps
  <2> QED BY <1>1, <2>1, <2>2, <2>3, <2>4
<1>2. Inv /\ [Next]_vars
        => [\A t \in Turns : message[t] # None =>
              /\ message'[t] # None
              /\ \A n \in DOMAIN message[t].calls :
                   /\ n \in DOMAIN message'[t].calls
                   /\ message'[t].calls[n].id = message[t].calls[n].id]_vars
  BY <1>1
<1> QED BY <1>2, InvAlways, PTL DEF Spec, EntriesStay

-----------------------------------------------------------------------------
(* What the abstract specification sees of turn t.                          *)
TextOf(t) == IF message[t] = None THEN None ELSE message[t].body
ShownOf(t) == IF message[t] = None THEN {}
              ELSE {<<e.id, e.status>> : e \in Range(message[t].calls)}
PhaseOf(t) == CASE worker[t].pc = "none" -> "unsent"
                [] worker[t].pc \in {"reading", "closing"} -> "open"
                [] OTHER -> "closed"

LEMMA Abstraction ==
  ASSUME Inv, NEW t \in Turns
  PROVE  TextOf(t) = EnsureAssistant(t).body /\ ShownOf(t) = Pairs(CallsOf(t))
<1>1. Pairs(<< >>) = {}
  BY DEF Pairs, Range
<1> QED BY <1>1, TurnTyped DEF TextOf, ShownOf, CallsOf, EnsureAssistant, Pairs, NoCalls

SameShown(t) == TextOf(t)' = TextOf(t) /\ ShownOf(t)' = ShownOf(t)

(* What each step of TurnStream is to a reader.                             *)
LEMMA OpenStep ==
  ASSUME NEW t \in Turns, \A u \in Turns : SameShown(u), PhaseOf(t) = "unsent",
         PhaseOf(t)' = "open", \A u \in Turns \ {t} : PhaseOf(u)' = PhaseOf(u)
  PROVE  Shown!Next
<1>1. Shown!Open(t)
  BY DEF Shown!Open, SameShown, TextOf, ShownOf, PhaseOf
<1> QED BY <1>1 DEF Shown!Next

LEMMA SayStep ==
  ASSUME NEW t \in Turns, NEW x \in Texts, PhaseOf(t) = "open",
         TextOf(t)' = x, ShownOf(t)' = ShownOf(t),
         \A u \in Turns \ {t} : SameShown(u), \A u \in Turns : PhaseOf(u)' = PhaseOf(u)
  PROVE  Shown!Next
<1>1. Shown!Say(t, x)
  BY DEF Shown!Say, SameShown, TextOf, ShownOf, PhaseOf
<1> QED BY <1>1 DEF Shown!Next

LEMMA ReportStep ==
  ASSUME NEW t \in Turns, NEW e \in Entry, PhaseOf(t) = "open", TextOf(t)' = TextOf(t),
         ShownOf(t)' = {c \in ShownOf(t) : c[1] # e.id} \cup {<<e.id, e.status>>},
         \A u \in Turns \ {t} : SameShown(u), \A u \in Turns : PhaseOf(u)' = PhaseOf(u)
  PROVE  Shown!Next
<1>1. e.id \in EntryIds /\ e.status \in Statuses
  BY DEF Entry
<1>2. Shown!Report(t, e.id, e.status)
  BY DEF Shown!Report, SameShown, TextOf, ShownOf, PhaseOf
<1> QED BY <1>1, <1>2 DEF Shown!Next

LEMMA CloseStep ==
  ASSUME NEW t \in Turns, NEW x \in Texts \cup {None}, PhaseOf(t) = "open",
         PhaseOf(t)' = "closed", ShownOf(t)' = ShownOf(t),
         TextOf(t)' = IF TextOf(t) = None /\ ShownOf(t) = {} THEN x ELSE TextOf(t),
         \A u \in Turns \ {t} : SameShown(u) /\ PhaseOf(u)' = PhaseOf(u)
  PROVE  Shown!Next
<1>1. Shown!Close(t, x)
  BY DEF Shown!Close, SameShown, TextOf, ShownOf, PhaseOf
<1> QED BY <1>1 DEF Shown!Next

LEMMA StutterStep ==
  ASSUME \A u \in Turns : SameShown(u) /\ PhaseOf(u)' = PhaseOf(u)
  PROVE  UNCHANGED Shown!vars
BY DEF Shown!vars, SameShown, TextOf, ShownOf, PhaseOf

LEMMA PhaseStays ==
  ASSUME NEW u \in Turns, worker'[u].pc = worker[u].pc
  PROVE  PhaseOf(u)' = PhaseOf(u)
BY DEF PhaseOf

LEMMA ShownStays ==
  ASSUME NEW u \in Turns, message'[u] = message[u]
  PROVE  SameShown(u)
BY DEF SameShown, TextOf, ShownOf

(* The text of one message is set.                                          *)
LEMMA TextSeen ==
  ASSUME Inv, Inv', NEW t \in Turns, NEW m \in Message, TextShown(t, m)
  PROVE  /\ TextOf(t)' = m.body /\ ShownOf(t)' = ShownOf(t)
         /\ \A u \in Turns \ {t} : SameShown(u)
<1>1. /\ message'[t] = m /\ m # None
      /\ \A u \in Turns \ {t} : message'[u] = message[u]
  BY MessageSet DEF TextShown
<1>2. TextOf(t)' = m.body /\ ShownOf(t)' = Pairs(m.calls)
  BY <1>1 DEF TextOf, ShownOf, Pairs
<1>3. ShownOf(t) = Pairs(m.calls)
  BY Abstraction DEF TextShown
<1> QED BY <1>1, <1>2, <1>3, ShownStays

(* Every step is one of Transcript, or nothing that a reader sees.          *)
LEMMA AbstractStep ==
  ASSUME Inv, Inv', [Next]_vars
  PROVE  Shown!Next \/ UNCHANGED Shown!vars
<1>0. \A t \in Turns : /\ TextOf(t) = EnsureAssistant(t).body
                       /\ ShownOf(t) = Pairs(CallsOf(t))
                       /\ worker[t] \in Worker
  BY Abstraction, TurnTyped
<1>1. ASSUME NEW t \in Turns, Send(t)
      PROVE  Shown!Next
  <2>1. Moves(t, {"none"}, "reading") /\ message' = message
    BY <1>1, ThreadSteps DEF Next, Send
  <2>2. PhaseOf(t) = "unsent" /\ PhaseOf(t)' = "open"
    BY <2>1 DEF Moves, PhaseOf
  <2>3. \A u \in Turns \ {t} : PhaseOf(u)' = PhaseOf(u)
    BY <2>1, PhaseStays DEF Moves, Stays
  <2> QED BY <2>1, <2>2, <2>3, OpenStep, ShownStays
<1>2. ASSUME NEW t \in Turns, NEW x \in Texts, HearText(t, x)
      PROVE  Shown!Next
  <2>1. TextShown(t, [EnsureAssistant(t) EXCEPT !.body = x])
    BY <1>2, TextSet DEF HearText, TextShown
  <2>2. worker' = worker /\ PhaseOf(t) = "open"
    BY <1>2 DEF HearText, Reading, PhaseOf
  <2>3. TextOf(t)' = x /\ ShownOf(t)' = ShownOf(t) /\ \A u \in Turns \ {t} : SameShown(u)
    BY <2>1, TextSet, TextSeen
  <2> QED BY <2>2, <2>3, PhaseStays, SayStep
<1>3. ASSUME NEW t \in Turns, NEW item \in Items \cup {None}, NEW word \in Words,
             HearCall(t, item, word)
      PROVE  Shown!Next
  <2>1. PICK e \in Entry, m \in Message : CallShown(t, e, m)
    BY <1>3, CallHeard
  <2>2. worker' = worker /\ PhaseOf(t) = "open"
    BY <1>3 DEF HearCall, Reading, PhaseOf
  <2>3. /\ message'[t] = m /\ m # None /\ \A u \in Turns \ {t} : message'[u] = message[u]
    BY <2>1, MessageSet DEF CallShown
  <2>4. TextOf(t)' = m.body /\ ShownOf(t)' = Pairs(m.calls)
    BY <2>3 DEF TextOf, ShownOf, Pairs
  <2>5. TextOf(t)' = TextOf(t)
    BY <1>0, <2>1, <2>4 DEF CallShown
  <2>6. ShownOf(t)' = {c \in ShownOf(t) : c[1] # e.id} \cup {<<e.id, e.status>>}
    BY <1>0, <2>1, <2>4 DEF CallShown
  <2> QED BY <2>2, <2>3, <2>5, <2>6, PhaseStays, ShownStays, ReportStep
<1>4. ASSUME NEW t \in Turns, FailRun(t)
      PROVE  Shown!Next
  <2>1. Moves(t, {"reading"}, "failed")
    BY <1>4, ThreadSteps DEF Next
  <2>2. PhaseOf(t) = "open" /\ PhaseOf(t)' = "closed"
    BY <2>1 DEF Moves, PhaseOf
  <2>3. \A u \in Turns \ {t} : PhaseOf(u)' = PhaseOf(u)
    BY <2>1, PhaseStays DEF Moves, Stays
  <2>4. \A u \in Turns : SameShown(u)
    <3>1. CASE message' = message
      BY <3>1, ShownStays
    <3>2. CASE message' = [message EXCEPT ![t] = EnsureAssistant(t)]
      <4>1. TextShown(t, EnsureAssistant(t)) /\ EnsureAssistant(t) \in Message
        BY <1>4, <3>2, TurnTyped DEF FailRun, TextShown
      <4> QED BY <1>0, <4>1, TextSeen DEF SameShown
    <3> QED BY <1>4, <3>1, <3>2 DEF FailRun
  <2> QED BY <2>2, <2>3, <2>4, CloseStep DEF SameShown
<1>5. ASSUME NEW t \in Turns, Die(t) \/ FinishConflict(t)
      PROVE  Shown!Next
  <2>1. Moves(t, {"reading", "closing"}, "failed") /\ message' = message
    BY <1>5, ThreadSteps DEF Next, Die, FinishConflict, Moves
  <2>2. PhaseOf(t) = "open" /\ PhaseOf(t)' = "closed"
    BY <2>1 DEF Moves, PhaseOf
  <2>3. \A u \in Turns \ {t} : PhaseOf(u)' = PhaseOf(u)
    BY <2>1, PhaseStays DEF Moves, Stays
  <2>4. \A u \in Turns : SameShown(u)
    BY <2>1, ShownStays
  <2> QED BY <2>2, <2>3, <2>4, CloseStep DEF SameShown
<1>6. ASSUME NEW t \in Turns, FinishCommit(t)
      PROVE  Shown!Next
  <2>1. Moves(t, {"closing"}, "over")
    BY <1>6, ThreadSteps DEF Next
  <2>2. PhaseOf(t) = "open" /\ PhaseOf(t)' = "closed"
    BY <2>1 DEF Moves, PhaseOf
  <2>3. \A u \in Turns \ {t} : PhaseOf(u)' = PhaseOf(u)
    BY <2>1, PhaseStays DEF Moves, Stays
  <2>4. CASE worker[t].final = None
    <3>1. \A u \in Turns : SameShown(u)
      BY <1>6, <2>4, ShownStays DEF FinishCommit
    <3> QED BY <2>2, <2>3, <3>1, CloseStep DEF SameShown
  <2>5. CASE worker[t].final # None
    <3> DEFINE x == worker[t].final
    <3>1. x \in Texts \cup {None} /\ TextOf(t) = None /\ ShownOf(t) = {}
      BY <1>0, <1>6, <2>5 DEF Inv, FinalForNone, FinishCommit, TextOf, ShownOf, Worker
    <3>2. TextShown(t, [EnsureAssistant(t) EXCEPT !.body = x])
      BY <1>6, <2>5, <3>1, TextSet DEF FinishCommit, TextShown
    <3> HIDE DEF x
    <3>3. PICK m \in Message : TextShown(t, m) /\ m.body = x
      BY <3>1, <3>2, TextSet
    <3>4. TextOf(t)' = x /\ ShownOf(t)' = ShownOf(t) /\ \A u \in Turns \ {t} : SameShown(u)
      BY <3>3, TextSeen
    <3> QED BY <2>2, <2>3, <3>1, <3>4, CloseStep
  <2> QED BY <2>4, <2>5
<1>7. ASSUME \/ Interrupt \/ UNCHANGED vars
             \/ \E t \in Turns : \/ HearTurnEnd(t) \/ FinishBegin(t)
                                 \/ \E x \in Texts : CliWritesFinal(t, x)
      PROVE  UNCHANGED Shown!vars
  <2>1. message' = message
    BY <1>7 DEF Interrupt, vars, HearTurnEnd, FinishBegin, CliWritesFinal
  <2>2. ASSUME NEW u \in Turns
        PROVE  PhaseOf(u)' = PhaseOf(u)
    <3>1. CASE \E t \in Turns : FinishBegin(t)
      <4>1. PICK t \in Turns : Moves(t, {"reading"}, "closing")
        BY <3>1, ThreadSteps DEF Next
      <4>2. CASE u = t
        BY <4>1, <4>2 DEF Moves, PhaseOf
      <4>3. CASE u # t
        BY <4>1, <4>3, PhaseStays DEF Moves, Stays
      <4> QED BY <4>2, <4>3
    <3>2. CASE ~ \E t \in Turns : FinishBegin(t)
      <4>1. worker'[u].pc = worker[u].pc
        BY <1>7, <3>2, ThreadSteps DEF Next, Stays, vars
      <4> QED BY <4>1, PhaseStays
    <3> QED BY <3>1, <3>2
  <2> QED BY <2>1, <2>2, ShownStays, StutterStep
<1> QED BY <1>1, <1>2, <1>3, <1>4, <1>5, <1>6, <1>7 DEF Next, HearItem

(* The messages that TurnStream builds are the transcripts that Transcript  *)
(* promises: each turn's is its own, complete, and filled from the file in  *)
(* no other case than that nothing was shown.                               *)
THEOREM TranscriptImplemented == Spec => TranscriptKept
<1>1. Init => Shown!Init
  BY DEF Init, Shown!Init
<1>2. Inv /\ Inv' /\ [Next]_vars => [Shown!Next]_Shown!vars
  BY AbstractStep
<1> QED BY <1>1, <1>2, InvAlways, PTL DEF Spec, TranscriptKept, Shown!Spec
===============================================================================
