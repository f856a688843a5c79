-------------------------------- MODULE Bridge --------------------------------
(***************************************************************************)
(* Tool calls as the CLI sees them.  Each run's CLI starts a bridge, a     *)
(* JSON-RPC server on a pair of pipes that handles one line after another: *)
(* it answers what it can by itself, posts tools/call to Odoo with the     *)
(* token of its run, and waits up to 60 s for the answer.  Which tools it  *)
(* offers was fixed when its run was launched; the server checks the       *)
(* user's grants again, in the transaction of the call, which it works on  *)
(* whether or not the bridge still waits.                                   *)
(*                                                                         *)
(* codexoo/bridge/mcp_server.py, and the grants of                          *)
(* codexoo/models/res_users.py that codexoo/controllers/tools.py checks,    *)
(* over ToolCalls.                                                          *)
(***************************************************************************)
EXTENDS ToolCalls

CONSTANTS ReadTools, WriteTools, WebTools,   \* the catalogue of tools
          DefaultTools, \* those of a bridge that was told of none
          Policies,     \* grants that an administrator may give the user
          MaxChanges,   \* bound: how often they are changed
          MaxUnread,    \* bound: lines in the pipe to a bridge
          None          \* no call, no tool

ASSUME BridgeBounds == MaxChanges \in Nat /\ MaxUnread \in Nat
ASSUME DefaultsRead == DefaultTools \subseteq ReadTools
ASSUME NoneIsNoCall == None \notin Calls \cup ReadTools \cup WriteTools \cup WebTools

AllTools == ReadTools \cup WriteTools \cup WebTools
Tokens == 1 .. MaxMints        \* a run and its bridge go by their token

VARIABLES policy,    \* the grants in force
          changes,
          asked,     \* asked[c]: the JSON-RPC line c, once written
          bridge,    \* bridge[t]: the bridge of the run with token t
          granted,   \* granted[c]: the grants that c's transaction sees
          allowed,   \* calls whose tool was granted at some time since posted
          replies    \* replies[c]: the kinds of the responses to c

bvars == <<policy, changes, asked, bridge, granted, allowed, replies>>
allvars == <<vars, bvars>>

-----------------------------------------------------------------------------
(* The grants: selected tools (none stands for the read tools), and whether *)
(* writes are stripped, by the user's mode or else by the global default.   *)

Policy == [sel: SUBSET AllTools, mode: {"inherit", "on", "off"}, default: BOOLEAN]

ASSUME PoliciesAreGrants == Policies \subseteq Policy

ZeroTrust(p) == p.mode = "on" \/ (p.mode = "inherit" /\ p.default)

Selected(p) == IF p.sel = {} THEN ReadTools ELSE p.sel

Effective(p) ==
  IF ZeroTrust(p) THEN Selected(p) \cap (ReadTools \cup WebTools) ELSE Selected(p)

(* What a bridge is told at its launch: if it is nothing, it has defaults.   *)
Visible(p) ==
  IF Effective(p) \subseteq WebTools THEN DefaultTools ELSE Effective(p) \ WebTools

-----------------------------------------------------------------------------
(* Lines, by what the bridge does with them, which an id decides for some:   *)
(*   call     tools/call: run, and answered with its id or with a null one;  *)
(*   plain    initialize, ping, tools/list: answered with its id or null;    *)
(*   unknown  another method, or parameters that raise, with an id: an error;*)
(*   ignored  the same without an id, the notification that the client is    *)
(*            initialized, what is not JSON: no answer;                      *)
(*   array    JSON that is not an object (a batch).                          *)
Kinds == {"call", "plain", "unknown", "ignored", "array"}
Answerable == {"call", "plain", "unknown"}
Line == [kind: Kinds \cup {"none"}, tool: AllTools \cup {None}, to: 0 .. MaxMints]
Unwritten == [kind |-> "none", tool |-> None, to |-> 0]

BridgeState == [pc: {"none", "reading", "waiting", "gone"},
                deaf: BOOLEAN,            \* its CLI has ended
                call: Calls \cup {None},
                stdin: Seq(Calls),
                visible: SUBSET AllTools]
NoBridge == [pc |-> "none", deaf |-> FALSE, call |-> None, stdin |-> << >>,
             visible |-> {}]

BInit ==
  /\ Init
  /\ policy \in Policies
  /\ changes = 0
  /\ asked = [c \in Calls |-> Unwritten]
  /\ bridge = [t \in Tokens |-> NoBridge]
  /\ granted = [c \in Calls |-> policy]
  /\ allowed = {}
  /\ replies = [c \in Calls |-> << >>]

(* A send mints the token, and its run starts the bridge.                   *)
Launch ==
  /\ Mint
  /\ bridge' = [bridge EXCEPT ![minted'] =
       [NoBridge EXCEPT !.pc = "reading", !.visible = Visible(policy)]]
  /\ UNCHANGED <<policy, changes, asked, granted, allowed, replies>>

(* An administrator changes the grants or the default, under running calls. *)
ChangePolicy ==
  /\ changes < MaxChanges
  /\ changes' = changes + 1
  /\ policy' \in Policies \ {policy}
  /\ allowed' = allowed \cup {c \in Calls : /\ call[c].pc # "none"
                                            /\ asked[c].tool \in Effective(policy')}
  /\ UNCHANGED <<vars, asked, bridge, granted, replies>>

-----------------------------------------------------------------------------
(* The CLI.                                                                *)

Open(t) == bridge[t].pc \in {"reading", "waiting"}

(* It writes a line of any kind, and need not wait for the reply to an      *)
(* earlier one.                                                            *)
Write(t, c) ==
  /\ Open(t) /\ ~bridge[t].deaf /\ Len(bridge[t].stdin) < MaxUnread
  /\ asked[c].kind = "none"
  /\ \E kind \in Kinds, tool \in AllTools \cup {None} :
       /\ (kind = "call") = (tool # None)
       /\ asked' = [asked EXCEPT ![c] = [kind |-> kind, tool |-> tool, to |-> t]]
  /\ bridge' = [bridge EXCEPT ![t].stdin = Append(@, c)]
  /\ UNCHANGED <<vars, policy, changes, granted, allowed, replies>>

(* It exits, or is killed: lines that it has written stay in the pipe.       *)
CliEnds(t) ==
  /\ Open(t) /\ ~bridge[t].deaf
  /\ bridge' = [bridge EXCEPT ![t].deaf = TRUE]
  /\ UNCHANGED <<vars, policy, changes, asked, granted, allowed, replies>>

-----------------------------------------------------------------------------
(* The bridge.                                                             *)

(* (A bug's form of Done: it waits on for a call that it has answered.)      *)
DoneWaiting(b) == [b EXCEPT !.pc = IF b.call = None THEN "reading" ELSE "waiting"]
Done(b) == [b EXCEPT !.pc = "reading", !.call = None]
Gone(b) == [b EXCEPT !.pc = "gone", !.call = None, !.stdin = << >>]

(* The bridge b answers c, and goes on, unless nobody is there to read.     *)
Reply(t, b, c, kind) ==
  IF b.deaf
  THEN bridge' = [bridge EXCEPT ![t] = Gone(b)] /\ UNCHANGED replies
  ELSE /\ bridge' = [bridge EXCEPT ![t] = Done(b)]
       /\ replies' = [replies EXCEPT ![c] = Append(@, kind)]

(* It takes the next line.                                                  *)
Taken(t) == [bridge[t] EXCEPT !.stdin = Tail(@)]
HasLine(t) == bridge[t].pc = "reading" /\ bridge[t].stdin # << >>

Ignore(t) ==
  /\ HasLine(t)
  /\ asked[Head(bridge[t].stdin)].kind = "ignored"
  /\ bridge' = [bridge EXCEPT ![t] = Taken(t)]
  /\ UNCHANGED <<vars, policy, changes, asked, granted, allowed, replies>>

(* JSON that is not an object raises, and again in the except clause.       *)
Crash(t) ==
  /\ HasLine(t)
  /\ asked[Head(bridge[t].stdin)].kind = "array"
  /\ bridge' = [bridge EXCEPT ![t] = Gone(bridge[t])]
  /\ UNCHANGED <<vars, policy, changes, asked, granted, allowed, replies>>

Offered(t, c) == asked[c].kind = "call" /\ asked[c].tool \in bridge[t].visible

(* It answers by itself; a tool that it does not offer is an error, too.     *)
AnswerItself(t) ==
  LET c == Head(bridge[t].stdin)
  IN /\ HasLine(t)
     /\ ~Offered(t, c) /\ asked[c].kind \in Answerable
     /\ Reply(t, Taken(t), c, IF asked[c].kind = "plain" THEN "result" ELSE "error")
     /\ UNCHANGED <<vars, policy, changes, asked, granted, allowed>>

(* A tool that it offers: the call is posted.                               *)
Post(t) ==
  LET c == Head(bridge[t].stdin)
  IN /\ HasLine(t) /\ Offered(t, c)
     /\ Send(c, t)
     /\ bridge' = [bridge EXCEPT ![t] = [Taken(t) EXCEPT !.pc = "waiting", !.call = c]]
     /\ allowed' = IF asked[c].tool \in Effective(policy) THEN allowed \cup {c} ELSE allowed
     /\ UNCHANGED <<policy, changes, asked, granted, replies>>

(* (A bug's form of Heard: the answers to earlier calls, given up by then,  *)
(* come over the same connection.)                                          *)
HeardAny(t) == {c \in Calls : asked[c].to = t /\ call[c].pc \in Over}
Heard(t) == {c \in {bridge[t].call} : call[c].pc \in Over}

(* An error of any sort is flagged.  (A bug's form: the outcome is passed.)  *)
AnswerPassed(x) == IF x.pc = "answered" THEN x.outcome ELSE "failed"
AnswerOf(x) == IF x.pc = "answered" /\ x.outcome = "success" THEN "result" ELSE "failed"

HearAnswer(t) ==
  /\ bridge[t].pc = "waiting"
  /\ \E c \in Heard(t) : Reply(t, bridge[t], bridge[t].call, AnswerOf(call[c]))
  /\ UNCHANGED <<vars, policy, changes, asked, granted, allowed>>

(* 60 s are over: the CLI is told that the call failed.  (A bug's form of   *)
(* TimesOut: nobody set the timeout.)                                       *)
NoTimeout(t) == bridge[t].call = None
TimesOut(t) == bridge[t].call # None
GiveUp(t) ==
  /\ bridge[t].pc = "waiting" /\ TimesOut(t)
  /\ Reply(t, bridge[t], bridge[t].call, "failed")
  /\ UNCHANGED <<vars, policy, changes, asked, granted, allowed>>

(* End of input.                                                           *)
Exit(t) ==
  /\ bridge[t].pc = "reading" /\ bridge[t].stdin = << >> /\ bridge[t].deaf
  /\ bridge' = [bridge EXCEPT ![t] = Gone(bridge[t])]
  /\ UNCHANGED <<vars, policy, changes, asked, granted, allowed, replies>>

BridgeStep(t) ==
  \/ Ignore(t)
  \/ Crash(t)
  \/ AnswerItself(t)
  \/ Post(t)
  \/ HearAnswer(t)
  \/ GiveUp(t)
  \/ Exit(t)

-----------------------------------------------------------------------------
(* The server: ToolCalls, with the tool that the call names.  What other    *)
(* users write is left to ToolCalls; calls that overlap, since one was      *)
(* given up, still conflict with each other.                                *)

ServerBegin(c) ==
  /\ Begin(c)
  /\ granted' = [granted EXCEPT ![c] = policy]
  /\ UNCHANGED <<policy, changes, asked, bridge, allowed, replies>>

(* _check_tool.  (A bug's form: what the bridge offers is not checked.)     *)
CheckToolNever(c) == asked[c].tool \in bridge[call[c].token].visible
CheckTool(c) == asked[c].tool \in Effective(granted[c])

Serve(c) ==
  /\ \/ Refuse(c)
     \/ Work(c) /\ CheckTool(c) /\ asked[c].tool \in WriteTools
     \/ Return(c) /\ CheckTool(c)
     \/ Raise(c)
     \/ RaiseAborted(c)
     \/ Record(c)
     \/ Commit(c)
     \/ Close(c)
     \/ Retry(c)
  /\ UNCHANGED bvars

Environment ==
  /\ Expire \/ Restart
  /\ UNCHANGED bvars

BNext ==
  \/ Launch
  \/ ChangePolicy
  \/ \E t \in Tokens, c \in Calls : Write(t, c)
  \/ \E t \in Tokens : CliEnds(t) \/ BridgeStep(t)
  \/ \E c \in Calls : ServerBegin(c) \/ Serve(c)
  \/ Environment

BSpec == BInit /\ [][BNext]_allvars

(* Each bridge goes on.  The server owes nobody anything.                   *)
BFairSpec == BSpec /\ \A t \in Tokens : WF_allvars(BridgeStep(t))

-----------------------------------------------------------------------------
(* Every variable has its type.                                            *)
BridgeTypeOK ==
  /\ policy \in Policies /\ changes \in 0 .. MaxChanges
  /\ asked \in [Calls -> Line]
  /\ bridge \in [Tokens -> BridgeState]
  /\ granted \in [Calls -> Policies]
  /\ allowed \subseteq Calls
  /\ replies \in [Calls -> Seq({"result", "failed", "error"})]

(* A tool's effect reaches the database only if the user has been granted   *)
(* the tool at some time since the call was posted: not because the bridge  *)
(* offered it, and not on the grants of a time before.                      *)
EffectGranted ==
  \A k \in Targets, c \in Calls : row[k][c] > 0 => c \in allowed

(* What the CLI is told is true: a result of a call says that it succeeded  *)
(* and that its effect is committed once, an error that nothing was run, no *)
(* matter which earlier calls were given up and are still at work.  Only a  *)
(* call that failed may have had its effect.                                *)
Told(c, kind) == \E n \in DOMAIN replies[c] : replies[c][n] = kind

RepliesTrue ==
  \A c \in Calls :
    /\ asked[c].kind = "call" /\ Told(c, "result")
         => /\ call[c].pc = "answered" /\ call[c].outcome = "success"
            /\ call[c].wrote => row[call[c].target][c] = 1
    /\ Told(c, "error") => call[c].pc = "none"

(* A line gets one response at the most, whatever it is: the bridge does    *)
(* not answer again what it gave up and then heard of, nor after an error.   *)
OneReply == \A c \in Calls : Len(replies[c]) <= 1

(* A line that has a response due gets it, even if the server never answers *)
(* the call, or has been blocked by it for ever; unless its own CLI ends or *)
(* sends a batch.                                                          *)
RequestsReplied ==
  \A c \in Calls, t \in Tokens :
    asked[c].kind \in Answerable /\ asked[c].to = t
      ~> replies[c] # << >> \/ bridge[t].deaf \/ bridge[t].pc = "gone"
===============================================================================
