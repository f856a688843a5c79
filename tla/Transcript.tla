------------------------------ MODULE Transcript ------------------------------
(***************************************************************************)
(* What a user is promised about the assistant's side of a conversation:   *)
(* one transcript for each turn, written by that turn alone while it lasts.*)
(* It shows the latest text, and every tool call with its latest status;   *)
(* the final message stands in only where nothing else was ever shown.     *)
(***************************************************************************)
CONSTANTS Turns, Ids, Statuses, Texts, NoText

VARIABLES text,    \* text[t]: what turn t shows as its answer
          calls,   \* calls[t]: the tool calls it shows, as <<id, status>>
          phase    \* phase[t]: unsent, open or closed

vars == <<text, calls, phase>>

Init ==
  /\ text = [t \in Turns |-> NoText]
  /\ calls = [t \in Turns |-> {}]
  /\ phase = [t \in Turns |-> "unsent"]

Open(t) ==
  /\ phase[t] = "unsent"
  /\ phase' = [phase EXCEPT ![t] = "open"]
  /\ UNCHANGED <<text, calls>>

Say(t, x) ==
  /\ phase[t] = "open"
  /\ text' = [text EXCEPT ![t] = x]
  /\ UNCHANGED <<calls, phase>>

Report(t, i, s) ==
  /\ phase[t] = "open"
  /\ calls' = [calls EXCEPT ![t] = {c \in @ : c[1] # i} \cup {<<i, s>>}]
  /\ UNCHANGED <<text, phase>>

(* The last thing a turn does; the final message, if any, fills a blank.    *)
Close(t, x) ==
  /\ phase[t] = "open"
  /\ phase' = [phase EXCEPT ![t] = "closed"]
  /\ text' = [text EXCEPT ![t] = IF @ = NoText /\ calls[t] = {} THEN x ELSE @]
  /\ UNCHANGED calls

Next ==
  \E t \in Turns :
    \/ Open(t)
    \/ \E x \in Texts : Say(t, x)
    \/ \E i \in Ids, s \in Statuses : Report(t, i, s)
    \/ \E x \in Texts \cup {NoText} : Close(t, x)

Spec == Init /\ [][Next]_vars
===============================================================================
