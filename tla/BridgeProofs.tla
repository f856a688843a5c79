----------------------------- MODULE BridgeProofs -----------------------------
(* What TLAPS proves of Bridge for every number of calls, runs, tools,      *)
(* grants, tries and restarts: first that what the bridges and the server   *)
(* do is a behaviour of ToolCalls, so that the theorems of ToolCallsProofs  *)
(* hold of it, then what the CLI is told, and whom a tool works for.        *)
EXTENDS Bridge, ToolCallsProofs

In(s) == {s[i] : i \in DOMAIN s}
Distinct(s) == \A i, j \in DOMAIN s : s[i] = s[j] => i = j

(* A line waits in the pipe of its own bridge, once, and nothing was done   *)
(* about it; a bridge waits for a call of its own, which it has not         *)
(* answered.                                                               *)
Tended(t) ==
  /\ Distinct(bridge[t].stdin)
  /\ \A c \in In(bridge[t].stdin) :
       /\ asked[c].to = t /\ asked[c].kind # "none"
       /\ call[c].pc = "none" /\ replies[c] = << >>
  /\ bridge[t].pc = "waiting" <=> bridge[t].call # None
  /\ bridge[t].call # None =>
       /\ asked[bridge[t].call].to = t /\ asked[bridge[t].call].kind = "call"
       /\ call[bridge[t].call].pc # "none" /\ replies[bridge[t].call] = << >>

(* A call that was posted is one that was asked for, and a reply to it was  *)
(* true when it was given: it is of a state that the call does not leave.   *)
Truthful(c) ==
  /\ Len(replies[c]) <= 1
  /\ asked[c].kind \in {"none", "ignored", "array"} => replies[c] = << >>
  /\ call[c].pc # "none" => asked[c].kind = "call"
  /\ (asked[c].kind = "call" /\ Told(c, "result"))
       => (call[c].pc = "answered" /\ call[c].outcome = "success")
  /\ Told(c, "error") => call[c].pc = "none"

(* A posted call whose tool is granted now, or was when its transaction     *)
(* began, has been allowed; so has one that wrote.                          *)
Permitted(c) ==
  /\ (call[c].pc # "none" /\ asked[c].tool \in Effective(policy)) => c \in allowed
  /\ (call[c].pc \in Busy /\ asked[c].tool \in Effective(granted[c])) => c \in allowed
  /\ call[c].wrote => c \in allowed

BridgeInv ==
  /\ Inv
  /\ BridgeTypeOK
  /\ \A t \in Tokens : Tended(t)
  /\ \A c \in Calls : Truthful(c)
  /\ \A c \in Calls : Permitted(c)
  /\ EffectGranted

-----------------------------------------------------------------------------
(* Lines in a pipe.                                                        *)
LEMMA LineTaken ==
  ASSUME NEW S, NEW s \in Seq(S), s # << >>
  PROVE  /\ Head(s) \in S /\ Head(s) \in In(s) /\ Tail(s) \in Seq(S)
         /\ In(Tail(s)) \subseteq In(s)
         /\ Distinct(s) => Distinct(Tail(s)) /\ Head(s) \notin In(Tail(s))
<1>1. /\ Tail(s) \in Seq(S) /\ Len(s) \in Nat /\ Len(s) > 0 /\ DOMAIN s = 1 .. Len(s)
      /\ Len(Tail(s)) = Len(s) - 1 /\ DOMAIN Tail(s) = 1 .. Len(s) - 1
      /\ Head(s) = s[1] /\ \A i \in 1 .. Len(s) - 1 : Tail(s)[i] = s[i + 1]
  BY HeadTailProperties
<1>2. \A i \in DOMAIN Tail(s) : i + 1 \in DOMAIN s /\ i + 1 # 1 /\ Tail(s)[i] = s[i + 1]
  BY <1>1
<1>3. 1 \in DOMAIN s /\ s[1] \in S
  BY <1>1
<1>4. In(Tail(s)) \subseteq In(s)
  BY <1>2 DEF In
<1>5. ASSUME Distinct(s)
      PROVE  Distinct(Tail(s)) /\ Head(s) \notin In(Tail(s))
  <2>1. \A i, j \in DOMAIN Tail(s) : Tail(s)[i] = Tail(s)[j] => i + 1 = j + 1
    BY <1>2, <1>5 DEF Distinct
  <2>2. \A i, j \in DOMAIN Tail(s) : i + 1 = j + 1 => i = j
    BY <1>1
  <2>3. \A i \in DOMAIN Tail(s) : Tail(s)[i] # s[1]
    BY <1>2, <1>3, <1>5 DEF Distinct
  <2> QED BY <1>1, <2>1, <2>2, <2>3 DEF Distinct, In
<1> QED BY <1>1, <1>3, <1>4, <1>5 DEF In

LEMMA LineWritten ==
  ASSUME NEW S, NEW s \in Seq(S), NEW c \in S, Distinct(s), c \notin In(s)
  PROVE  /\ Append(s, c) \in Seq(S) /\ In(Append(s, c)) = In(s) \cup {c}
         /\ Distinct(Append(s, c))
<1>1. /\ Append(s, c) \in Seq(S) /\ Len(s) \in Nat /\ DOMAIN s = 1 .. Len(s)
      /\ DOMAIN Append(s, c) = 1 .. Len(s) + 1
      /\ \A i \in 1 .. Len(s) : Append(s, c)[i] = s[i]
      /\ Append(s, c)[Len(s) + 1] = c
  BY AppendProperties
<1>2. DOMAIN Append(s, c) = DOMAIN s \cup {Len(s) + 1} /\ Len(s) + 1 \notin DOMAIN s
  BY <1>1
<1>3. \A i \in DOMAIN s : Append(s, c)[i] = s[i] /\ s[i] # c
  BY <1>1 DEF In
<1>4. In(Append(s, c)) = In(s) \cup {c}
  BY <1>1, <1>2, <1>3 DEF In
<1>5. Distinct(Append(s, c))
  BY <1>1, <1>2, <1>3 DEF Distinct
<1> QED BY <1>1, <1>4, <1>5

(* One reply is that reply.                                                *)
LEMMA FirstReply ==
  ASSUME NEW S, NEW kind \in S
  PROVE  /\ Append(<< >>, kind) = <<kind>> /\ <<kind>> \in Seq(S)
         /\ Len(<<kind>>) = 1 /\ <<kind>> # << >>
         /\ DOMAIN <<kind>> = {1} /\ <<kind>>[1] = kind
OBVIOUS

-----------------------------------------------------------------------------
(* Every step is one of ToolCalls.                                         *)
LEMMA LineSet ==
  ASSUME BridgeTypeOK, NEW t \in Tokens, bridge[t].stdin # << >>
  PROVE  /\ Head(bridge[t].stdin) \in Calls
         /\ bridge[t] \in BridgeState /\ bridge[t].stdin \in Seq(Calls)
<1>1. bridge[t] \in BridgeState
  BY DEF BridgeTypeOK
<1>2. bridge[t].stdin \in Seq(Calls)
  BY <1>1 DEF BridgeState
<1> QED BY <1>1, <1>2, LineTaken

LEMMA ServeIsCallStep ==
  ASSUME NEW c \in Calls, ServerBegin(c) \/ Serve(c)
  PROVE  CallStep(c)
BY DEF ServerBegin, Serve, CallStep

LEMMA StepIsCallsStep ==
  ASSUME BridgeTypeOK, [BNext]_allvars
  PROVE  [Next]_vars
<1>1. CASE Launch \/ Environment
  BY <1>1 DEF Launch, Environment, Next
<1>2. CASE ChangePolicy \/ UNCHANGED allvars
  BY <1>2 DEF ChangePolicy, allvars
<1>3. ASSUME NEW t \in Tokens, NEW c \in Calls, Write(t, c)
      PROVE  [Next]_vars
  BY <1>3 DEF Write
<1>4. ASSUME NEW t \in Tokens, CliEnds(t) \/ BridgeStep(t)
      PROVE  [Next]_vars
  <2>1. CASE Post(t)
    <3>1. bridge[t].stdin # << >> /\ Send(Head(bridge[t].stdin), t)
      BY <2>1 DEF Post, HasLine
    <3> QED BY <3>1, LineSet DEF Next, Tokens
  <2>2. CASE ~Post(t)
    BY <1>4, <2>2 DEF CliEnds, BridgeStep, Ignore, Crash, AnswerItself, HearAnswer, GiveUp, Exit
  <2> QED BY <2>1, <2>2
<1>5. ASSUME NEW c \in Calls, ServerBegin(c) \/ Serve(c)
      PROVE  [Next]_vars
  BY <1>5, ServeIsCallStep DEF Next
<1> QED BY <1>1, <1>2, <1>3, <1>4, <1>5 DEF BNext

-----------------------------------------------------------------------------
(* The types, and what a reply does.                                       *)
Kept == {"result", "failed", "error"}

LEMMA ToolsOfGrants ==
  ASSUME NEW p \in Policies
  PROVE  Visible(p) \subseteq AllTools /\ Effective(p) \subseteq AllTools
<1>1. p.sel \subseteq AllTools
  BY PoliciesAreGrants DEF Policy
<1>2. Effective(p) \subseteq AllTools
  BY <1>1 DEF Effective, Selected, AllTools
<1> QED BY <1>2, DefaultsRead DEF Visible, AllTools

LEMMA BridgeMoves ==
  ASSUME NEW b \in BridgeState
  PROVE  /\ Done(b) \in BridgeState /\ Done(b).pc = "reading" /\ Done(b).call = None
         /\ Done(b).stdin = b.stdin
         /\ Gone(b) \in BridgeState /\ Gone(b).pc = "gone" /\ Gone(b).call = None
         /\ Gone(b).stdin = << >>
<1>1. << >> \in Seq(Calls)
  OBVIOUS
<1>2. Done(b) \in BridgeState
  BY DEF Done, BridgeState
<1>3. Gone(b) \in BridgeState
  BY <1>1 DEF Gone, BridgeState
<1>4. /\ Done(b).pc = "reading" /\ Done(b).call = None /\ Done(b).stdin = b.stdin
      /\ Gone(b).pc = "gone" /\ Gone(b).call = None /\ Gone(b).stdin = << >>
  BY DEF Done, Gone, BridgeState
<1> QED BY <1>2, <1>3, <1>4

LEMMA ReplyGiven ==
  ASSUME bridge \in [Tokens -> BridgeState], replies \in [Calls -> Seq(Kept)],
         NEW t \in Tokens, NEW b \in BridgeState, NEW c \in Calls, NEW kind \in Kept,
         Reply(t, b, c, kind)
  PROVE  /\ bridge' \in [Tokens -> BridgeState] /\ replies' \in [Calls -> Seq(Kept)]
         /\ \A u \in Tokens \ {t} : bridge'[u] = bridge[u]
         /\ \A d \in Calls \ {c} : replies'[d] = replies[d]
         /\ bridge'[t].call = None /\ bridge'[t].pc # "waiting"
         /\ bridge'[t].stdin \in {b.stdin, << >>}
         /\ replies'[c] = replies[c] \/ replies'[c] = Append(replies[c], kind)
<1>1. CASE b.deaf
  <2>1. bridge' = [bridge EXCEPT ![t] = Gone(b)] /\ replies' = replies
    BY <1>1 DEF Reply
  <2> QED BY <2>1, BridgeMoves
<1>2. CASE ~b.deaf
  <2>1. /\ bridge' = [bridge EXCEPT ![t] = Done(b)]
        /\ replies' = [replies EXCEPT ![c] = Append(replies[c], kind)]
    BY <1>2 DEF Reply
  <2>2. Append(replies[c], kind) \in Seq(Kept)
    BY AppendProperties
  <2> QED BY <2>1, <2>2, BridgeMoves
<1> QED BY <1>1, <1>2

LEMMA LineTakenOff ==
  ASSUME BridgeTypeOK, NEW t \in Tokens, HasLine(t)
  PROVE  /\ Taken(t) \in BridgeState /\ Taken(t).stdin = Tail(bridge[t].stdin)
         /\ Taken(t).pc = "reading" /\ Taken(t).call = bridge[t].call
         /\ Head(bridge[t].stdin) \in Calls
<1>1. /\ bridge[t] \in BridgeState /\ Head(bridge[t].stdin) \in Calls
      /\ Tail(bridge[t].stdin) \in Seq(Calls) /\ bridge[t].pc = "reading"
  BY LineSet, LineTaken DEF HasLine
<1>2. Taken(t) = [bridge[t] EXCEPT !.stdin = Tail(bridge[t].stdin)]
  BY DEF Taken
<1> QED BY <1>1, <1>2 DEF BridgeState

(* What a bridge that replies does, be it by itself or to a posted call.    *)
Replies(t, b, c, kind) ==
  /\ Reply(t, b, c, kind)
  /\ UNCHANGED <<vars, policy, changes, asked, granted, allowed>>

LEMMA RepliesItself ==
  ASSUME BridgeTypeOK, NEW t \in Tokens, AnswerItself(t)
  PROVE  \E c \in Calls, kind \in Kept :
           /\ c = Head(bridge[t].stdin) /\ HasLine(t) /\ Replies(t, Taken(t), c, kind)
           /\ asked[c].kind \in {"plain", "unknown", "call"}
           /\ asked[c].kind = "call" => kind # "result"
<1> DEFINE c == Head(bridge[t].stdin)
           kind == IF asked[c].kind = "plain" THEN "result" ELSE "error"
<1>1. HasLine(t) /\ c \in Calls /\ kind \in Kept
  BY LineSet DEF AnswerItself, HasLine, Kept
<1>2. /\ Replies(t, Taken(t), c, kind) /\ asked[c].kind \in {"plain", "unknown", "call"}
      /\ asked[c].kind = "call" => kind # "result"
  BY DEF AnswerItself, Answerable, Replies
<1> QED BY <1>1, <1>2

LEMMA RepliesToCall ==
  ASSUME BridgeTypeOK, \A t \in Tokens : Tended(t), NEW t \in Tokens,
         HearAnswer(t) \/ GiveUp(t)
  PROVE  \E c \in Calls, kind \in {"result", "failed"} :
           /\ c = bridge[t].call /\ bridge[t] \in BridgeState
           /\ Replies(t, bridge[t], c, kind)
           /\ kind = "result" => (call[c].pc = "answered" /\ call[c].outcome = "success")
<1>1. bridge[t].pc = "waiting" /\ bridge[t] \in BridgeState
  BY DEF HearAnswer, GiveUp, BridgeTypeOK
<1>2. bridge[t].call # None /\ bridge[t].call \in Calls
  BY <1>1 DEF Tended, BridgeState
<1>3. CASE HearAnswer(t)
  <2>1. Replies(t, bridge[t], bridge[t].call, AnswerOf(call[bridge[t].call]))
    BY <1>3 DEF HearAnswer, Heard, Replies
  <2>2. /\ AnswerOf(call[bridge[t].call]) \in {"result", "failed"}
        /\ AnswerOf(call[bridge[t].call]) = "result" =>
             /\ call[bridge[t].call].pc = "answered"
             /\ call[bridge[t].call].outcome = "success"
    BY DEF AnswerOf
  <2> QED BY <1>1, <1>2, <2>1, <2>2
<1>4. CASE GiveUp(t)
  <2>1. Replies(t, bridge[t], bridge[t].call, "failed")
    BY <1>4 DEF GiveUp, Replies
  <2> QED BY <1>1, <1>2, <2>1
<1> QED BY <1>3, <1>4

LEMMA BridgeTypesStep ==
  ASSUME TypeOK, BridgeTypeOK, \A t \in Tokens : Tended(t), [BNext]_allvars
  PROVE  BridgeTypeOK'
<1>0. /\ policy \in Policies /\ changes \in 0 .. MaxChanges /\ asked \in [Calls -> Line]
      /\ bridge \in [Tokens -> BridgeState] /\ granted \in [Calls -> Policies]
      /\ allowed \subseteq Calls /\ replies \in [Calls -> Seq(Kept)]
      /\ Kept = {"result", "failed", "error"}
  BY DEF BridgeTypeOK, Kept
<1>1. CASE Launch
  <2>1. << >> \in Seq(Calls) /\ Visible(policy) \subseteq AllTools
    BY <1>0, ToolsOfGrants
  <2>2. [NoBridge EXCEPT !.pc = "reading", !.visible = Visible(policy)] \in BridgeState
    BY <2>1 DEF NoBridge, BridgeState
  <2>3. bridge' \in [Tokens -> BridgeState]
    BY <1>0, <1>1, <2>2 DEF Launch
  <2> QED BY <1>0, <1>1, <2>3 DEF Launch, BridgeTypeOK
<1>2. CASE ChangePolicy
  <2>1. changes' \in 0 .. MaxChanges /\ policy' \in Policies /\ allowed' \subseteq Calls
    BY <1>0, <1>2, BridgeBounds DEF ChangePolicy
  <2> QED BY <1>0, <1>2, <2>1 DEF ChangePolicy, BridgeTypeOK
<1>3. ASSUME NEW t \in Tokens, NEW c \in Calls, Write(t, c)
      PROVE  BridgeTypeOK'
  <2>1. bridge[t] \in BridgeState /\ bridge[t].stdin \in Seq(Calls)
    BY <1>0 DEF BridgeState
  <2>2. Append(bridge[t].stdin, c) \in Seq(Calls)
    BY <2>1, AppendProperties
  <2>3. [bridge[t] EXCEPT !.stdin = Append(bridge[t].stdin, c)] \in BridgeState
    BY <2>1, <2>2 DEF BridgeState
  <2>4. bridge' = [bridge EXCEPT ![t] = [bridge[t] EXCEPT !.stdin = Append(bridge[t].stdin, c)]]
    BY <1>0, <1>3 DEF Write
  <2>5. t \in 0 .. MaxMints
    BY DEF Tokens
  <2>6. asked' \in [Calls -> Line]
    BY <1>0, <1>3, <2>5 DEF Write, Line
  <2> QED BY <1>0, <1>3, <2>3, <2>4, <2>6 DEF Write, BridgeTypeOK
<1>4. ASSUME NEW t \in Tokens, CliEnds(t) \/ Ignore(t) \/ Crash(t) \/ Exit(t)
      PROVE  BridgeTypeOK'
  <2>1. bridge[t] \in BridgeState
    BY <1>0
  <2>2. [bridge[t] EXCEPT !.deaf = TRUE] \in BridgeState /\ Gone(bridge[t]) \in BridgeState
    BY <2>1, BridgeMoves DEF BridgeState
  <2>3. Ignore(t) => Taken(t) \in BridgeState
    BY LineTakenOff DEF Ignore
  <2>4. \E b \in BridgeState : bridge' = [bridge EXCEPT ![t] = b]
    <3>1. CliEnds(t) => bridge' = [bridge EXCEPT ![t] = [bridge[t] EXCEPT !.deaf = TRUE]]
      BY <1>0 DEF CliEnds
    <3> QED BY <1>4, <2>2, <2>3, <3>1 DEF Ignore, Crash, Exit
  <2>5. bridge' \in [Tokens -> BridgeState]
    BY <1>0, <2>4
  <2> QED BY <1>0, <1>4, <2>5 DEF CliEnds, Ignore, Crash, Exit, BridgeTypeOK
<1>5. ASSUME NEW t \in Tokens, AnswerItself(t) \/ HearAnswer(t) \/ GiveUp(t)
      PROVE  BridgeTypeOK'
  <2>1. PICK b \in BridgeState, c \in Calls, kind \in Kept : Replies(t, b, c, kind)
    <3>1. CASE AnswerItself(t)
      BY <3>1, RepliesItself, LineTakenOff
    <3>2. CASE HearAnswer(t) \/ GiveUp(t)
      BY <3>2, RepliesToCall DEF Kept
    <3> QED BY <1>5, <3>1, <3>2
  <2>2. bridge' \in [Tokens -> BridgeState] /\ replies' \in [Calls -> Seq(Kept)]
    BY <1>0, <2>1, ReplyGiven DEF Replies
  <2> QED BY <1>0, <2>1, <2>2 DEF Replies, BridgeTypeOK
<1>6. ASSUME NEW t \in Tokens, Post(t)
      PROVE  BridgeTypeOK'
  <2>1. HasLine(t)
    BY <1>6 DEF Post
  <2>2. Taken(t) \in BridgeState /\ Head(bridge[t].stdin) \in Calls
    BY <2>1, LineTakenOff
  <2>3. [Taken(t) EXCEPT !.pc = "waiting", !.call = Head(bridge[t].stdin)] \in BridgeState
    BY <2>2 DEF BridgeState
  <2>4. bridge' \in [Tokens -> BridgeState] /\ allowed' \subseteq Calls
    BY <1>0, <1>6, <2>2, <2>3 DEF Post
  <2> QED BY <1>0, <1>6, <2>4 DEF Post, BridgeTypeOK
<1>7. ASSUME NEW c \in Calls, ServerBegin(c) \/ Serve(c)
      PROVE  BridgeTypeOK'
  BY <1>0, <1>7 DEF ServerBegin, Serve, bvars, BridgeTypeOK
<1>8. CASE Environment \/ UNCHANGED allvars
  BY <1>0, <1>8 DEF Environment, allvars, bvars, BridgeTypeOK
<1> QED BY <1>1, <1>2, <1>3, <1>4, <1>5, <1>6, <1>7, <1>8 DEF BNext, BridgeStep

-----------------------------------------------------------------------------
(* What the server does to the calls.                                       *)
LEMMA ServerCalls ==
  ASSUME call \in [Calls -> Call], NEW d \in Calls,
         \/ \E c \in Calls : CallStep(c)
         \/ Environment
  PROVE  /\ call'[d].pc = "none" <=> call[d].pc = "none"
         /\ call[d].pc = "answered" => call'[d] = call[d]
<1>1. ASSUME NEW c \in Calls, CallStep(c), c # d
      PROVE  call'[d] = call[d]
  BY <1>1 DEF CallStep, Begin, Refuse, Work, Return, Raise, RaiseAborted, Record,
              RecordFails, Commit, Close, Retry, Settle
<1>2. CASE CallStep(d)
  <2>0. call[d] \in Call
    OBVIOUS
  <2>1. call[d].pc \notin {"none", "answered"}
    BY <1>2 DEF CallStep, Begin, Refuse, Work, Return, Raise, RaiseAborted, Record,
                RecordFails, Commit, Close, Retry
  <2>2. Begin(d) \/ Refuse(d) \/ Work(d) => call'[d].pc # "none"
    BY <2>0, <2>1 DEF Begin, Refuse, Work, Call
  <2>3. Return(d) \/ Raise(d) \/ RaiseAborted(d) => call'[d].pc # "none"
    BY <2>0 DEF Return, Raise, RaiseAborted, Settle, Settled, Outcome, Call
  <2>4. Record(d) \/ RecordFails(d) \/ Commit(d) \/ Close(d) => call'[d].pc # "none"
    BY <2>0 DEF Record, RecordFails, Commit, Close, Call
  <2>5. Retry(d) => call'[d].pc # "none"
    BY <2>0 DEF Retry, Again, Call
  <2> QED BY <1>2, <2>1, <2>2, <2>3, <2>4, <2>5 DEF CallStep
<1>3. CASE Environment
  <2>1. CASE Expire
    BY <2>1 DEF Expire
  <2>2. CASE Restart
    <3>0. call[d] \in Call
      OBVIOUS
    <3>1. \/ call[d].pc \in {"none"} \cup Over /\ call'[d] = call[d]
          \/ /\ call[d].pc \notin {"none"} \cup Over
             /\ call'[d] = [call[d] EXCEPT !.pc = "lost", !.wrote = FALSE]
      BY <2>2 DEF Restart
    <3> QED BY <3>0, <3>1 DEF Call, Over
  <2> QED BY <1>3, <2>1, <2>2 DEF Environment
<1> QED BY <1>1, <1>2, <1>3

(* Except for its Begin, the server takes no call to work; and it writes    *)
(* only for one that it has checked.                                        *)
LEMMA ServedCalls ==
  ASSUME call \in [Calls -> Call], NEW c \in Calls, Serve(c), NEW d \in Calls
  PROVE  /\ call'[d].pc \in Busy => call[d].pc \in Busy
         /\ call'[d].wrote =>
              \/ call[d].wrote
              \/ call[d].pc \in Busy /\ asked[d].tool \in Effective(granted[d])
<1>0. call[c] \in Call /\ call[d] \in Call
  OBVIOUS
<1>1. CASE c # d
  <2>1. call'[d] = call[d]
    BY <1>1 DEF Serve, Refuse, Work, Return, Raise, RaiseAborted, Record,
                Commit, Close, Retry, Settle
  <2> QED BY <2>1
<1>2. CASE c = d
  <2>1. CASE Refuse(c) \/ Commit(c) \/ Close(c)
    BY <1>0, <1>2, <2>1 DEF Refuse, Commit, Close, Call, Busy
  <2>2. CASE Return(c) \/ Raise(c) \/ RaiseAborted(c)
    <3>1. /\ call[c].pc = "working"
          /\ \E o : call'[c] = [call[c] EXCEPT !.pc = "auditing", !.outcome = o]
      BY <1>0, <2>2 DEF Return, Raise, RaiseAborted, Settle, Settled
    <3>2. call'[c].wrote = call[c].wrote
      BY <1>0, <3>1 DEF Call
    <3> QED BY <1>2, <3>1, <3>2 DEF Busy
  <2>3. CASE Record(c)
    BY <1>0, <1>2, <2>3 DEF Record, Call, Busy
  <2>4. CASE Work(c) /\ CheckTool(c)
    BY <1>0, <1>2, <2>4 DEF Work, CheckTool, Call, Busy
  <2>5. CASE Retry(c)
    <3>1. call'[c] = Again(call[c])
      BY <1>0, <2>5 DEF Retry
    <3>2. call'[c].pc \notin Busy /\ ~call'[c].wrote
      BY <1>0, <3>1 DEF Again, Call, Busy
    <3> QED BY <1>2, <3>2
  <2> QED BY <2>1, <2>2, <2>3, <2>4, <2>5 DEF Serve
<1> QED BY <1>1, <1>2

-----------------------------------------------------------------------------
(* A bridge that does nothing is as tended as before, and so is its next    *)
(* state when the lines in its pipe and the call it waits for are as they   *)
(* were.                                                                   *)
LEMMA TendedElsewhere ==
  ASSUME NEW t \in Tokens, bridge[t] \in BridgeState, Tended(t),
         bridge'[t].stdin = bridge[t].stdin, bridge'[t].call = bridge[t].call,
         bridge'[t].pc = bridge[t].pc,
         \A d \in Calls :
           (asked[d].to = t /\ asked[d].kind # "none") =>
             /\ asked'[d] = asked[d] /\ replies'[d] = replies[d]
             /\ call'[d].pc = "none" <=> call[d].pc = "none"
  PROVE  Tended(t)'
<1>1. In(bridge[t].stdin) \subseteq Calls
  BY DEF BridgeState, In
<1>2. bridge[t].call # None => bridge[t].call \in Calls
  BY DEF BridgeState
<1> QED BY <1>1, <1>2 DEF Tended

(* A bridge that is not waiting is tended if its lines were, and are fewer  *)
(* or as many, and nothing was done about them.                             *)
LEMMA TendedIdle ==
  ASSUME NEW t \in Tokens, bridge'[t].call = None, bridge'[t].pc # "waiting",
         Distinct(bridge'[t].stdin),
         \A d \in In(bridge'[t].stdin) :
           /\ asked'[d].to = t /\ asked'[d].kind # "none"
           /\ call'[d].pc = "none" /\ replies'[d] = << >>
  PROVE  Tended(t)'
BY DEF Tended

LEMMA EmptyPipe == Distinct(<< >>) /\ In(<< >>) = {}
BY DEF Distinct, In

(* The lines that are left, once the first is taken.                        *)
LEMMA LinesLeft ==
  ASSUME BridgeTypeOK, NEW t \in Tokens, Tended(t), HasLine(t)
  PROVE  LET s == bridge[t].stdin
         IN /\ Head(s) \in Calls /\ bridge[t].call = None
            /\ asked[Head(s)].to = t /\ asked[Head(s)].kind # "none"
            /\ call[Head(s)].pc = "none" /\ replies[Head(s)] = << >>
            /\ Distinct(Tail(s)) /\ In(Tail(s)) \subseteq Calls
            /\ \A d \in In(Tail(s)) :
                 /\ d # Head(s) /\ asked[d].to = t /\ asked[d].kind # "none"
                 /\ call[d].pc = "none" /\ replies[d] = << >>
<1> DEFINE s == bridge[t].stdin
<1>1. s # << >> /\ bridge[t].pc = "reading"
  BY DEF HasLine
<1>2. s \in Seq(Calls)
  BY <1>1, LineSet
<1>3. /\ Head(s) \in Calls /\ Head(s) \in In(s) /\ Tail(s) \in Seq(Calls)
      /\ In(Tail(s)) \subseteq In(s) /\ Distinct(Tail(s)) /\ Head(s) \notin In(Tail(s))
  BY <1>1, <1>2, LineTaken DEF Tended
<1>4. In(Tail(s)) \subseteq Calls
  BY <1>3 DEF In
<1>5. bridge[t].call = None
  BY <1>1 DEF Tended
<1> QED BY <1>3, <1>4, <1>5 DEF Tended

LEMMA TendedStep ==
  ASSUME TypeOK, BridgeTypeOK, \A t \in Tokens : Tended(t),
         \A c \in Calls : Truthful(c), [BNext]_allvars, NEW u \in Tokens
  PROVE  Tended(u)'
<1>0. /\ bridge \in [Tokens -> BridgeState] /\ replies \in [Calls -> Seq(Kept)]
      /\ asked \in [Calls -> Line] /\ call \in [Calls -> Call]
      /\ bridge[u] \in BridgeState /\ Tended(u)
  BY DEF BridgeTypeOK, TypeOK, Kept
<1>1. CASE Launch
  <2>1. call' = call /\ asked' = asked /\ replies' = replies
    BY <1>1 DEF Launch, Mint
  <2>2. CASE u = minted'
    <3>1. bridge'[u] = [NoBridge EXCEPT !.pc = "reading", !.visible = Visible(policy)]
      BY <1>0, <1>1, <2>2 DEF Launch
    <3>2. bridge'[u].pc = "reading" /\ bridge'[u].call = None /\ bridge'[u].stdin = << >>
      BY <3>1 DEF NoBridge
    <3> QED BY <3>2, EmptyPipe, TendedIdle
  <2>3. CASE u # minted'
    <3>1. bridge'[u] = bridge[u]
      BY <1>0, <1>1, <2>3 DEF Launch
    <3> QED BY <1>0, <2>1, <3>1, TendedElsewhere
  <2> QED BY <2>2, <2>3
<1>2. CASE ChangePolicy \/ UNCHANGED allvars
  BY <1>0, <1>2, TendedElsewhere DEF ChangePolicy, allvars, vars, bvars
<1>3. ASSUME NEW t \in Tokens, NEW c \in Calls, Write(t, c)
      PROVE  Tended(u)'
  <2>1. /\ asked[c].kind = "none" /\ call' = call /\ replies' = replies
        /\ \A d \in Calls \ {c} : asked'[d] = asked[d]
        /\ asked'[c].to = t /\ asked'[c].kind \in Kinds
    BY <1>0, <1>3 DEF Write, vars
  <2>2. call[c].pc = "none" /\ replies[c] = << >>
    BY <2>1 DEF Truthful
  <2>3. CASE u # t
    <3>1. bridge'[u] = bridge[u]
      BY <1>0, <1>3, <2>3 DEF Write
    <3> QED BY <1>0, <2>1, <3>1, TendedElsewhere
  <2>4. CASE u = t
    <3>1. /\ bridge[u].stdin \in Seq(Calls) /\ In(bridge[u].stdin) \subseteq Calls
          /\ Distinct(bridge[u].stdin) /\ c \notin In(bridge[u].stdin)
      BY <1>0, <2>1 DEF BridgeState, In, Tended
    <3>2. bridge' = [bridge EXCEPT ![u] = [bridge[u] EXCEPT !.stdin = Append(bridge[u].stdin, c)]]
      BY <1>0, <1>3, <2>4 DEF Write
    <3>3. /\ bridge'[u].stdin = Append(bridge[u].stdin, c)
          /\ bridge'[u].pc = bridge[u].pc /\ bridge'[u].call = bridge[u].call
      BY <1>0, <3>2 DEF BridgeState
    <3>4. Distinct(bridge'[u].stdin) /\ In(bridge'[u].stdin) = In(bridge[u].stdin) \cup {c}
      BY <3>1, <3>3, LineWritten
    <3>5. \A d \in In(bridge'[u].stdin) :
            /\ asked'[d].to = u /\ asked'[d].kind # "none"
            /\ call'[d].pc = "none" /\ replies'[d] = << >>
      <4>1. asked'[c].kind # "none"
        BY <2>1 DEF Kinds
      <4> QED BY <1>0, <2>1, <2>2, <2>4, <3>1, <3>4, <4>1 DEF Tended
    <3>6. bridge[u].call # None => bridge[u].call \in Calls \ {c}
      BY <1>0, <2>1 DEF Tended, BridgeState
    <3> QED BY <1>0, <2>1, <3>3, <3>4, <3>5, <3>6 DEF Tended
  <2> QED BY <2>3, <2>4
<1>4. ASSUME NEW t \in Tokens, CliEnds(t) \/ Ignore(t) \/ Crash(t) \/ Exit(t)
      PROVE  Tended(u)'
  <2>1. call' = call /\ asked' = asked /\ replies' = replies
    BY <1>4 DEF CliEnds, Ignore, Crash, Exit, vars
  <2>2. CASE u # t
    <3>1. bridge'[u] = bridge[u]
      BY <1>0, <1>4, <2>2 DEF CliEnds, Ignore, Crash, Exit
    <3> QED BY <1>0, <2>1, <3>1, TendedElsewhere
  <2>3. CASE u = t /\ CliEnds(t)
    <3>1. bridge'[u] = [bridge[u] EXCEPT !.deaf = TRUE]
      BY <1>0, <2>3 DEF CliEnds
    <3>2. /\ bridge'[u].stdin = bridge[u].stdin /\ bridge'[u].call = bridge[u].call
          /\ bridge'[u].pc = bridge[u].pc
      BY <1>0, <3>1 DEF BridgeState
    <3> QED BY <1>0, <2>1, <3>2, TendedElsewhere
  <2>4. CASE u = t /\ Ignore(t)
    <3>1. HasLine(u) /\ bridge'[u] = Taken(u)
      BY <1>0, <2>4 DEF Ignore
    <3>2. /\ bridge'[u].stdin = Tail(bridge[u].stdin) /\ bridge'[u].pc = "reading"
          /\ bridge'[u].call = None
      BY <1>0, <3>1, LineTakenOff, LinesLeft
    <3> QED BY <1>0, <2>1, <3>1, <3>2, LinesLeft, TendedIdle
  <2>5. CASE u = t /\ (Crash(t) \/ Exit(t))
    <3>1. bridge'[u] = Gone(bridge[u])
      BY <1>0, <2>5 DEF Crash, Exit
    <3> QED BY <1>0, <3>1, BridgeMoves, EmptyPipe, TendedIdle
  <2> QED BY <1>4, <2>2, <2>3, <2>4, <2>5
<1>5. ASSUME NEW t \in Tokens, AnswerItself(t)
      PROVE  Tended(u)'
  <2>1. PICK c \in Calls, kind \in Kept :
           /\ c = Head(bridge[t].stdin) /\ HasLine(t) /\ Replies(t, Taken(t), c, kind)
    BY <1>5, RepliesItself
  <2>2. /\ Taken(t) \in BridgeState /\ Taken(t).stdin = Tail(bridge[t].stdin)
        /\ asked[c].to = t /\ call' = call /\ asked' = asked
    BY <2>1, LineTakenOff, LinesLeft DEF Replies, vars
  <2>3. /\ \A v \in Tokens \ {t} : bridge'[v] = bridge[v]
        /\ \A d \in Calls \ {c} : replies'[d] = replies[d]
        /\ bridge'[t].call = None /\ bridge'[t].pc # "waiting"
        /\ bridge'[t].stdin \in {Tail(bridge[t].stdin), << >>}
    BY <1>0, <2>1, <2>2, ReplyGiven DEF Replies
  <2>4. CASE u # t
    BY <1>0, <2>2, <2>3, <2>4, TendedElsewhere
  <2>5. CASE u = t
    <3>1. CASE bridge'[u].stdin = << >>
      BY <2>3, <2>5, <3>1, EmptyPipe, TendedIdle
    <3>2. CASE bridge'[u].stdin = Tail(bridge[u].stdin)
      <4>1. /\ Distinct(bridge'[u].stdin) /\ In(bridge'[u].stdin) \subseteq Calls \ {c}
            /\ \A d \in In(bridge'[u].stdin) :
                 /\ asked[d].to = u /\ asked[d].kind # "none"
                 /\ call[d].pc = "none" /\ replies[d] = << >>
        BY <1>0, <2>1, <2>5, <3>2, LinesLeft
      <4>2. \A d \in In(bridge'[u].stdin) :
              /\ asked'[d].to = u /\ asked'[d].kind # "none"
              /\ call'[d].pc = "none" /\ replies'[d] = << >>
        BY <2>2, <2>3, <4>1
      <4> QED BY <2>3, <2>5, <4>1, <4>2, TendedIdle
    <3> QED BY <2>3, <2>5, <3>1, <3>2
  <2> QED BY <2>4, <2>5
<1>6. ASSUME NEW t \in Tokens, HearAnswer(t) \/ GiveUp(t)
      PROVE  Tended(u)'
  <2>1. PICK c \in Calls, kind \in Kept :
           /\ c = bridge[t].call /\ bridge[t] \in BridgeState
           /\ Replies(t, bridge[t], c, kind)
    BY <1>6, RepliesToCall DEF Kept
  <2>2. /\ asked[c].to = t /\ call[c].pc # "none" /\ call' = call /\ asked' = asked
        /\ Tended(t)
    BY <2>1, NoneIsNoCall DEF Tended, Replies, vars
  <2>3. /\ \A v \in Tokens \ {t} : bridge'[v] = bridge[v]
        /\ \A d \in Calls \ {c} : replies'[d] = replies[d]
        /\ bridge'[t].call = None /\ bridge'[t].pc # "waiting"
        /\ bridge'[t].stdin \in {bridge[t].stdin, << >>}
    BY <1>0, <2>1, ReplyGiven DEF Replies
  <2>4. CASE u # t
    BY <1>0, <2>2, <2>3, <2>4, TendedElsewhere
  <2>5. CASE u = t
    <3>1. CASE bridge'[u].stdin = << >>
      BY <2>3, <2>5, <3>1, EmptyPipe, TendedIdle
    <3>2. CASE bridge'[u].stdin = bridge[u].stdin
      <4>1. In(bridge[u].stdin) \subseteq Calls \ {c}
        BY <1>0, <2>2 DEF Tended, BridgeState, In
      <4>2. \A d \in In(bridge[u].stdin) :
              /\ asked'[d].to = u /\ asked'[d].kind # "none"
              /\ call'[d].pc = "none" /\ replies'[d] = << >>
        BY <1>0, <2>2, <2>3, <4>1 DEF Tended
      <4>3. Distinct(bridge[u].stdin)
        BY <1>0 DEF Tended
      <4> QED BY <2>3, <2>5, <3>2, <4>2, <4>3, TendedIdle
    <3> QED BY <2>3, <2>5, <3>1, <3>2
  <2> QED BY <2>4, <2>5
<1>7. ASSUME NEW t \in Tokens, Post(t)
      PROVE  Tended(u)'
  <2> DEFINE c == Head(bridge[t].stdin)
  <2>1. /\ HasLine(t) /\ asked[c].kind = "call" /\ asked' = asked /\ replies' = replies
        /\ Send(c, t)
        /\ bridge' = [bridge EXCEPT ![t] = [Taken(t) EXCEPT !.pc = "waiting", !.call = c]]
    BY <1>7 DEF Post, Offered
  <2>2. /\ c \in Calls /\ asked[c].to = t /\ replies[c] = << >> /\ Taken(t) \in BridgeState
        /\ Taken(t).stdin = Tail(bridge[t].stdin) /\ c # None
    BY <2>1, LinesLeft, LineTakenOff, NoneIsNoCall
  <2>3. /\ call' = [call EXCEPT ![c] = [call[c] EXCEPT !.pc = "sent", !.token = t]]
        /\ call[c] \in Call
    BY <1>0, <2>1, <2>2 DEF Send
  <2>4. call'[c].pc = "sent" /\ \A d \in Calls \ {c} : call'[d] = call[d]
    BY <1>0, <2>2, <2>3 DEF Call
  <2>5. CASE u # t
    <3>1. bridge'[u] = bridge[u]
      BY <1>0, <2>1, <2>5
    <3> QED BY <1>0, <2>1, <2>2, <2>4, <2>5, <3>1, TendedElsewhere
  <2>6. CASE u = t
    <3>1. /\ bridge'[u].pc = "waiting" /\ bridge'[u].call = c
          /\ bridge'[u].stdin = Tail(bridge[u].stdin)
      BY <1>0, <2>1, <2>2, <2>6 DEF BridgeState
    <3> QED BY <2>1, <2>2, <2>4, <2>6, <3>1, LinesLeft DEF Tended
  <2> QED BY <2>5, <2>6
<1>8. ASSUME Environment \/ \E c \in Calls : ServerBegin(c) \/ Serve(c)
      PROVE  Tended(u)'
  <2>1. bridge' = bridge /\ asked' = asked /\ replies' = replies
    BY <1>8 DEF Environment, ServerBegin, Serve, bvars
  <2>2. \A d \in Calls : call'[d].pc = "none" <=> call[d].pc = "none"
    BY <1>0, <1>8, ServerCalls, ServeIsCallStep
  <2> QED BY <1>0, <2>1, <2>2, TendedElsewhere
<1> QED BY <1>1, <1>2, <1>3, <1>4, <1>5, <1>6, <1>7, <1>8 DEF BNext, BridgeStep

-----------------------------------------------------------------------------
(* What the CLI was told stays true when nothing is told, and the call only *)
(* moves as calls do: it is posted once, and an answer stays.               *)
LEMMA TruthKept ==
  ASSUME NEW c \in Calls, Truthful(c), replies'[c] = replies[c], asked'[c] = asked[c],
         call'[c].pc = "none" <=> call[c].pc = "none",
         call[c].pc = "answered" => call'[c] = call[c]
  PROVE  Truthful(c)'
<1>1. \A kind \in Kept : Told(c, kind)' <=> Told(c, kind)
  BY DEF Told
<1>2. "result" \in Kept /\ "error" \in Kept
  BY DEF Kept
<1> QED BY <1>1, <1>2 DEF Truthful

LEMMA NothingTold ==
  ASSUME NEW c \in Calls, replies'[c] = << >>, call'[c].pc # "none" => asked'[c].kind = "call"
  PROVE  Truthful(c)'
BY DEF Truthful, Told

(* The first reply to a request.                                           *)
LEMMA FirstTold ==
  ASSUME NEW c \in Calls, NEW kind \in Kept, replies[c] = << >>,
         replies'[c] = Append(replies[c], kind),
         asked'[c].kind \in {"plain", "unknown", "call"},
         call'[c].pc # "none" => asked'[c].kind = "call",
         (asked'[c].kind = "call" /\ kind = "result")
           => (call'[c].pc = "answered" /\ call'[c].outcome = "success"),
         kind = "error" => call'[c].pc = "none"
  PROVE  Truthful(c)'
<1>1. replies'[c] = <<kind>> /\ Len(replies'[c]) = 1
  BY FirstReply
<1>2. \A k : Told(c, k)' => k = kind
  BY <1>1, FirstReply DEF Told
<1> QED BY <1>1, <1>2 DEF Truthful

LEMMA TruthfulStep ==
  ASSUME TypeOK, BridgeTypeOK, \A t \in Tokens : Tended(t),
         \A c \in Calls : Truthful(c), [BNext]_allvars, NEW d \in Calls
  PROVE  Truthful(d)'
<1>0. /\ bridge \in [Tokens -> BridgeState] /\ replies \in [Calls -> Seq(Kept)]
      /\ asked \in [Calls -> Line] /\ call \in [Calls -> Call] /\ Truthful(d)
  BY DEF BridgeTypeOK, TypeOK, Kept
<1>1. CASE Launch \/ ChangePolicy \/ UNCHANGED allvars
  <2>1. replies' = replies /\ asked' = asked /\ call' = call
    BY <1>1 DEF Launch, Mint, ChangePolicy, allvars, vars, bvars
  <2> QED BY <1>0, <2>1, TruthKept
<1>2. ASSUME NEW t \in Tokens, CliEnds(t) \/ Ignore(t) \/ Crash(t) \/ Exit(t)
      PROVE  Truthful(d)'
  <2>1. replies' = replies /\ asked' = asked /\ call' = call
    BY <1>2 DEF CliEnds, Ignore, Crash, Exit, vars
  <2> QED BY <1>0, <2>1, TruthKept
<1>3. ASSUME NEW t \in Tokens, NEW c \in Calls, Write(t, c)
      PROVE  Truthful(d)'
  <2>1. /\ replies' = replies /\ call' = call /\ asked[c].kind = "none"
        /\ \A e \in Calls \ {c} : asked'[e] = asked[e]
    BY <1>0, <1>3 DEF Write, vars
  <2>2. CASE d = c
    <3>1. replies'[d] = << >> /\ call'[d].pc = "none"
      BY <1>0, <2>1, <2>2 DEF Truthful
    <3> QED BY <3>1, NothingTold
  <2>3. CASE d # c
    BY <1>0, <2>1, <2>3, TruthKept
  <2> QED BY <2>2, <2>3
<1>4. ASSUME NEW t \in Tokens, AnswerItself(t) \/ HearAnswer(t) \/ GiveUp(t)
      PROVE  Truthful(d)'
  <2>1. PICK b \in BridgeState, c \in Calls, kind \in Kept :
          /\ Replies(t, b, c, kind) /\ replies[c] = << >>
          /\ asked[c].kind \in {"plain", "unknown", "call"}
          /\ (asked[c].kind = "call" /\ kind = "result")
               => (call[c].pc = "answered" /\ call[c].outcome = "success")
          /\ kind = "error" => call[c].pc = "none"
    <3>1. CASE AnswerItself(t)
      <4>1. PICK c \in Calls, kind \in Kept :
              /\ c = Head(bridge[t].stdin) /\ HasLine(t) /\ Replies(t, Taken(t), c, kind)
              /\ asked[c].kind \in {"plain", "unknown", "call"}
              /\ asked[c].kind = "call" => kind # "result"
        BY <3>1, RepliesItself
      <4>2. Taken(t) \in BridgeState /\ replies[c] = << >> /\ call[c].pc = "none"
        BY <4>1, LineTakenOff, LinesLeft
      <4> QED BY <4>1, <4>2
    <3>2. CASE HearAnswer(t) \/ GiveUp(t)
      <4>1. PICK c \in Calls, kind \in {"result", "failed"} :
              /\ c = bridge[t].call /\ bridge[t] \in BridgeState
              /\ Replies(t, bridge[t], c, kind)
              /\ kind = "result" => (call[c].pc = "answered" /\ call[c].outcome = "success")
        BY <3>2, RepliesToCall
      <4>2. replies[c] = << >> /\ asked[c].kind = "call" /\ kind \in Kept
        BY <4>1, NoneIsNoCall DEF Tended, Kept
      <4> QED BY <4>1, <4>2
    <3> QED BY <1>4, <3>1, <3>2
  <2>2. /\ call' = call /\ asked' = asked
        /\ \A e \in Calls \ {c} : replies'[e] = replies[e]
        /\ replies'[c] = replies[c] \/ replies'[c] = Append(replies[c], kind)
    BY <1>0, <2>1, ReplyGiven DEF Replies, vars
  <2>3. CASE replies'[d] = replies[d]
    BY <1>0, <2>2, <2>3, TruthKept
  <2>4. CASE d = c /\ replies'[d] = Append(replies[d], kind)
    BY <1>0, <2>1, <2>2, <2>4, FirstTold DEF Truthful
  <2> QED BY <2>2, <2>3, <2>4
<1>5. ASSUME NEW t \in Tokens, Post(t)
      PROVE  Truthful(d)'
  <2> DEFINE c == Head(bridge[t].stdin)
  <2>1. /\ HasLine(t) /\ asked[c].kind = "call" /\ asked' = asked /\ replies' = replies
        /\ Send(c, t)
    BY <1>5 DEF Post, Offered
  <2>2. c \in Calls /\ replies[c] = << >>
    BY <2>1, LinesLeft
  <2>3. \A e \in Calls \ {c} : call'[e] = call[e]
    BY <1>0, <2>1, <2>2 DEF Send
  <2>4. CASE d = c
    BY <2>1, <2>2, <2>4, NothingTold
  <2>5. CASE d # c
    BY <1>0, <2>1, <2>3, <2>5, TruthKept
  <2> QED BY <2>4, <2>5
<1>6. ASSUME Environment \/ \E c \in Calls : ServerBegin(c) \/ Serve(c)
      PROVE  Truthful(d)'
  <2>1. asked' = asked /\ replies' = replies
    BY <1>6 DEF Environment, ServerBegin, Serve, bvars
  <2>2. /\ call'[d].pc = "none" <=> call[d].pc = "none"
        /\ call[d].pc = "answered" => call'[d] = call[d]
    BY <1>0, <1>6, ServerCalls, ServeIsCallStep
  <2> QED BY <1>0, <2>1, <2>2, TruthKept
<1> QED BY <1>1, <1>2, <1>3, <1>4, <1>5, <1>6 DEF BNext, BridgeStep

-----------------------------------------------------------------------------
(* A tool writes on a grant.                                               *)
LEMMA PermittedStep ==
  ASSUME TypeOK, BridgeTypeOK, \A t \in Tokens : Tended(t),
         \A c \in Calls : Truthful(c), \A c \in Calls : Permitted(c),
         [BNext]_allvars, NEW d \in Calls
  PROVE  Permitted(d)'
<1>0. /\ bridge \in [Tokens -> BridgeState] /\ asked \in [Calls -> Line]
      /\ call \in [Calls -> Call] /\ granted \in [Calls -> Policies]
      /\ call[d] \in Call /\ Permitted(d) /\ Truthful(d)
  BY DEF BridgeTypeOK, TypeOK
<1>1. ASSUME UNCHANGED <<call, asked, policy, granted, allowed>>
      PROVE  Permitted(d)'
  BY <1>0, <1>1 DEF Permitted, Effective, ZeroTrust, Selected
<1>2. CASE Launch \/ UNCHANGED allvars
  BY <1>1, <1>2 DEF Launch, Mint, allvars, vars, bvars
<1>3. ASSUME NEW t \in Tokens, CliEnds(t) \/ (BridgeStep(t) /\ ~Post(t))
      PROVE  Permitted(d)'
  <2>1. UNCHANGED <<call, asked, policy, granted, allowed>>
    BY <1>3 DEF CliEnds, BridgeStep, Ignore, Crash, AnswerItself, HearAnswer, GiveUp, Exit, vars
  <2> QED BY <1>1, <2>1
<1>4. CASE ChangePolicy
  <2>1. /\ UNCHANGED <<call, asked, granted>> /\ allowed \subseteq allowed'
        /\ (call[d].pc # "none" /\ asked[d].tool \in Effective(policy')) => d \in allowed'
    BY <1>4 DEF ChangePolicy, vars
  <2> QED BY <1>0, <2>1 DEF Permitted, Effective, ZeroTrust, Selected
<1>5. ASSUME NEW t \in Tokens, NEW c \in Calls, Write(t, c)
      PROVE  Permitted(d)'
  <2>1. /\ UNCHANGED <<call, policy, granted, allowed>> /\ asked[c].kind = "none"
        /\ \A e \in Calls \ {c} : asked'[e] = asked[e]
    BY <1>0, <1>5 DEF Write, vars
  <2>2. CASE d = c
    <3>1. call'[d].pc = "none"
      BY <1>0, <2>1, <2>2 DEF Truthful
    <3> QED BY <1>0, <2>1, <3>1 DEF Permitted, Busy
  <2>3. CASE d # c
    BY <1>0, <2>1, <2>3 DEF Permitted, Effective, ZeroTrust, Selected
  <2> QED BY <2>2, <2>3
<1>6. ASSUME NEW t \in Tokens, Post(t)
      PROVE  Permitted(d)'
  <2> DEFINE c == Head(bridge[t].stdin)
  <2>1. /\ HasLine(t) /\ Send(c, t) /\ UNCHANGED <<policy, asked, granted>>
        /\ allowed \subseteq allowed'
        /\ asked[c].tool \in Effective(policy) => c \in allowed'
    BY <1>6 DEF Post
  <2>2. c \in Calls /\ call[c].pc = "none"
    BY <2>1, LinesLeft
  <2>3. /\ call' = [call EXCEPT ![c] = [call[c] EXCEPT !.pc = "sent", !.token = t]]
        /\ call[c] \in Call
    BY <1>0, <2>1, <2>2 DEF Send
  <2>4. CASE d = c
    <3>1. call'[d].pc = "sent" /\ call'[d].wrote = call[d].wrote
      BY <1>0, <2>3, <2>4 DEF Call
    <3>2. asked'[d].tool \in Effective(policy)' => d \in allowed'
      BY <2>1, <2>4 DEF Effective, ZeroTrust, Selected
    <3> QED BY <1>0, <2>1, <3>1, <3>2 DEF Permitted, Busy
  <2>5. CASE d # c
    <3>1. call'[d] = call[d]
      BY <1>0, <2>2, <2>3, <2>5
    <3> QED BY <1>0, <2>1, <3>1 DEF Permitted, Effective, ZeroTrust, Selected
  <2> QED BY <2>4, <2>5
<1>7. ASSUME NEW c \in Calls, ServerBegin(c)
      PROVE  Permitted(d)'
  <2>1. /\ UNCHANGED <<policy, asked, allowed>> /\ call[c].pc = "sent"
        /\ call' = [call EXCEPT ![c] = [call[c] EXCEPT !.pc = "working", !.seen = valid]]
        /\ granted' = [granted EXCEPT ![c] = policy]
    BY <1>0, <1>7 DEF ServerBegin, Begin
  <2>2. CASE d = c
    <3>1. /\ call'[d].pc = "working" /\ call'[d].wrote = call[d].wrote
          /\ granted'[d] = policy
      BY <1>0, <2>1, <2>2 DEF Call
    <3>2. asked'[d].tool \in Effective(policy)' => d \in allowed'
      BY <1>0, <2>1, <2>2 DEF Permitted, Effective, ZeroTrust, Selected
    <3>3. Effective(granted[d])' = Effective(policy)'
      BY <2>1, <3>1 DEF Effective, ZeroTrust, Selected
    <3> QED BY <1>0, <2>1, <3>1, <3>2, <3>3 DEF Permitted
  <2>3. CASE d # c
    <3>1. call'[d] = call[d] /\ granted'[d] = granted[d]
      BY <1>0, <2>1, <2>3
    <3> QED BY <1>0, <2>1, <3>1 DEF Permitted, Effective, ZeroTrust, Selected
  <2> QED BY <2>2, <2>3
<1>8. ASSUME NEW c \in Calls, Serve(c)
      PROVE  Permitted(d)'
  <2>1. UNCHANGED <<policy, asked, granted, allowed>>
    BY <1>8 DEF Serve, bvars
  <2>2. call'[d].pc # "none" => call[d].pc # "none"
    BY <1>0, <1>8, ServerCalls, ServeIsCallStep
  <2>3. /\ call'[d].pc \in Busy => call[d].pc \in Busy
        /\ call'[d].wrote => d \in allowed
    BY <1>0, <1>8, ServedCalls DEF Permitted
  <2> QED BY <1>0, <2>1, <2>2, <2>3 DEF Permitted, Effective, ZeroTrust, Selected
<1>9. CASE Environment
  <2>1. UNCHANGED <<policy, asked, granted, allowed>>
    BY <1>9 DEF Environment, bvars
  <2>2. \/ call'[d] = call[d]
        \/ call'[d].pc = "lost" /\ ~call'[d].wrote /\ call[d].pc # "none"
    <3>1. CASE Expire
      BY <3>1 DEF Expire
    <3>2. CASE Restart
      <4>1. \/ call'[d] = call[d]
            \/ /\ call[d].pc # "none"
               /\ call'[d] = [call[d] EXCEPT !.pc = "lost", !.wrote = FALSE]
        BY <3>2 DEF Restart
      <4> QED BY <1>0, <4>1 DEF Call
    <3> QED BY <1>9, <3>1, <3>2 DEF Environment
  <2> QED BY <1>0, <2>1, <2>2 DEF Permitted, Busy, Effective, ZeroTrust, Selected
<1> QED BY <1>2, <1>3, <1>4, <1>5, <1>6, <1>7, <1>8, <1>9 DEF BNext, BridgeStep

LEMMA AllowedStays ==
  ASSUME [BNext]_allvars
  PROVE  allowed \subseteq allowed'
BY DEF BNext, Launch, ChangePolicy, Write, CliEnds, BridgeStep, Ignore, Crash, AnswerItself,
       Post, HearAnswer, GiveUp, Exit, ServerBegin, Serve, Environment, allvars, bvars

LEMMA GrantedStep ==
  ASSUME Inv, EffectGranted, \A c \in Calls : Permitted(c), [Next]_vars,
         allowed \subseteq allowed'
  PROVE  EffectGranted'
<1> SUFFICES ASSUME NEW k \in Targets, NEW c \in Calls, row'[k][c] > 0
             PROVE  c \in allowed'
  BY DEF EffectGranted
<1>1. CASE row'[k][c] = row[k][c]
  BY <1>1 DEF EffectGranted
<1>2. CASE row'[k][c] # row[k][c]
  <2>1. Commit(c)
    BY <1>2, EffectSteps
  <2> QED BY <2>1 DEF Commit, Permitted
<1> QED BY <1>1, <1>2

-----------------------------------------------------------------------------
LEMMA BridgeInvInit == BInit => BridgeInv
<1> SUFFICES ASSUME BInit
             PROVE  BridgeInv
  OBVIOUS
<1>1. Inv
  BY InvInit DEF BInit
<1>2. \A c \in Calls : call[c].pc = "none" /\ ~call[c].wrote
  BY DEF BInit, Init
<1>3. BridgeTypeOK
  <2>1. << >> \in Seq(Calls) /\ << >> \in Seq({"result", "failed", "error"})
    OBVIOUS
  <2>2. NoBridge \in BridgeState
    BY <2>1 DEF NoBridge, BridgeState
  <2>3. Unwritten \in Line
    BY TriesAndMints DEF Unwritten, Line
  <2> QED BY <2>1, <2>2, <2>3, BridgeBounds DEF BInit, BridgeTypeOK
<1>4. \A t \in Tokens : Tended(t)
  <2> SUFFICES ASSUME NEW t \in Tokens
               PROVE  Tended(t)
    OBVIOUS
  <2>1. bridge[t].pc = "none" /\ bridge[t].call = None /\ bridge[t].stdin = << >>
    BY DEF BInit, NoBridge
  <2> QED BY <2>1, EmptyPipe DEF Tended
<1>5. \A c \in Calls : Truthful(c)
  BY <1>2 DEF BInit, Truthful, Told
<1>6. \A c \in Calls : Permitted(c)
  BY <1>2 DEF Permitted, Busy
<1>7. EffectGranted
  BY DEF EffectGranted, BInit, Init
<1> QED BY <1>1, <1>3, <1>4, <1>5, <1>6, <1>7 DEF BridgeInv

LEMMA BridgeInvStep == BridgeInv /\ [BNext]_allvars => BridgeInv'
<1> SUFFICES ASSUME BridgeInv, [BNext]_allvars
             PROVE  BridgeInv'
  OBVIOUS
<1>1. Inv /\ TypeOK /\ BridgeTypeOK /\ [Next]_vars
  BY StepIsCallsStep DEF BridgeInv, Inv
<1>2. Inv'
  BY <1>1, InvStep
<1>3. BridgeTypeOK'
  BY <1>1, BridgeTypesStep DEF BridgeInv
<1>4. \A t \in Tokens : Tended(t)'
  BY <1>1, TendedStep DEF BridgeInv
<1>5. \A c \in Calls : Truthful(c)' /\ Permitted(c)'
  BY <1>1, TruthfulStep, PermittedStep DEF BridgeInv
<1>6. EffectGranted'
  BY <1>1, AllowedStays, GrantedStep DEF BridgeInv
<1>7. (\A t \in Tokens : Tended(t))' /\ (\A c \in Calls : Truthful(c))'
      /\ (\A c \in Calls : Permitted(c))'
  BY <1>4, <1>5
<1> QED BY <1>2, <1>3, <1>6, <1>7 DEF BridgeInv

LEMMA BridgeInvAlways == BSpec => []BridgeInv
BY BridgeInvInit, BridgeInvStep, PTL DEF BSpec

(* Each behaviour of the bridges, the CLIs, the administrator and the       *)
(* server is one of ToolCalls: they post, authenticate, work, log, commit   *)
(* and retry as it allows.                                                 *)
THEOREM BridgeIsToolCalls == BSpec => Spec
<1>1. BInit => Init
  BY DEF BInit
<1>2. BridgeInv /\ [BNext]_allvars => [Next]_vars
  BY StepIsCallsStep DEF BridgeInv
<1> QED BY <1>1, <1>2, BridgeInvAlways, PTL DEF BSpec, Spec

(* What ToolCalls promises holds of the tool calls of every bridge.         *)
THEOREM BridgeKeepsPromises ==
  BSpec => /\ [](TypeOK /\ LogTellsAnswer /\ AnswersTrue)
           /\ EffectUnderToken /\ PromiseKept
BY BridgeIsToolCalls, CallTypesKept, LogAlwaysTellsAnswer, AnswersAlwaysTrue,
   EffectsUnderTokens, PromiseImplemented, PTL

(* Every variable of the bridges keeps its type, whatever is written,       *)
(* given up, posted and answered in whatever order.                         *)
THEOREM BridgeTypesKept == BSpec => []BridgeTypeOK
<1>1. BridgeInv => BridgeTypeOK
  BY DEF BridgeInv
<1> QED BY <1>1, BridgeInvAlways, PTL

(* No effect is ever committed for a tool that the user was not granted at  *)
(* some time after the call was posted.                                     *)
THEOREM EffectsAlwaysGranted == BSpec => []EffectGranted
<1>1. BridgeInv => EffectGranted
  BY DEF BridgeInv
<1> QED BY <1>1, BridgeInvAlways, PTL

(* A result that the CLI was told is a success whose effect is committed    *)
(* once, an error means that nothing was run, and both stay so.             *)
THEOREM RepliesAlwaysTrue == BSpec => []RepliesTrue
<1>1. BridgeInv => RepliesTrue
  <2>1. Inv => AnswersTrue
    BY DEF Inv, EffectsWithAnswers, AnswersTrue
  <2> QED BY <2>1 DEF BridgeInv, Truthful, RepliesTrue, AnswersTrue
<1> QED BY <1>1, BridgeInvAlways, PTL

(* No line is answered twice, however calls are given up and heard of late. *)
THEOREM RepliedAtMostOnce == BSpec => []OneReply
<1>1. BridgeInv => OneReply
  <2> SUFFICES ASSUME BridgeInv, NEW c \in Calls
               PROVE  Len(replies[c]) <= 1
    BY DEF OneReply
  <2>1. Truthful(c) /\ Len(<< >>) = 0
    BY DEF BridgeInv
  <2> QED BY <2>1 DEF Truthful
<1> QED BY <1>1, BridgeInvAlways, PTL
===============================================================================
