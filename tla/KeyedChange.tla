---------------------------- MODULE KeyedChange ----------------------------
(***************************************************************************)
(* What a tool whose preview the Core makes promises to the calls of one   *)
(* user with one key (docs/SECURITY.md and the comments on the receipts in *)
(* types.go): the change is made at most once, as one of the calls that    *)
(* confirmed it asked and with that caller's rights; who is told that it   *)
(* was made asked for the very same change; who asks for it is told this   *)
(* or an error; and nobody is shown more than his rights allow.  There are *)
(* no entries, no list of tools and no restarts.                           *)
(***************************************************************************)
CONSTANTS
  Calls, Tried, None, Rights, Inputs(_),   \* see OwnerWrites
  Confirms(_, _),   \* tool, input: the change is confirmed
  Needs(_, _),      \* tool, input: rights of the caller who makes the change
  Sees(_, _)        \* tool, input: rights of a caller who is answered

VARIABLES
  tool,     \* the tool that is called
  input,    \* call -> its input
  rights,   \* call -> rights of its user
  change,   \* the input of the change that was made, or None
  answer    \* call -> what its client was told, or None

vars == <<tool, input, rights, change, answer>>

Error == [kind |-> "error", prices |-> FALSE]

Init ==
  /\ tool \in Tried
  /\ input = [c \in Calls |-> None]
  /\ rights = [c \in Calls |-> {}]
  /\ change = None
  /\ answer = [c \in Calls |-> None]

\* A call comes in, and may be turned away at once.
Begin(c) ==
  /\ input[c] = None
  /\ \E i \in Inputs(tool), r \in SUBSET Rights :
       /\ input' = [input EXCEPT ![c] = i]
       /\ rights' = [rights EXCEPT ![c] = r]
  /\ answer' = answer \/ answer' = [answer EXCEPT ![c] = Error]
  /\ UNCHANGED <<tool, change>>

Tells(c, kind) ==
  /\ Sees(tool, input[c]) \subseteq rights[c]
  /\ \E prices \in BOOLEAN :
       /\ prices => "financial" \in rights[c]
       /\ answer' = [answer EXCEPT ![c] = [kind |-> kind, prices |-> prices]]

Open(c) ==
  /\ input[c] # None /\ answer[c] = None
  /\ UNCHANGED <<tool, input, rights>>

\* An error says nothing of the change.
Fail(c) ==
  /\ Open(c)
  /\ answer' = [answer EXCEPT ![c] = Error]
  /\ UNCHANGED change

\* A call that confirms nothing is shown a preview or asked for more, a
\* confirmed one is only asked, and only by a tool that prepares it itself.
Show(c) ==
  /\ Open(c)
  /\ \/ ~Confirms(tool, input[c]) /\ \E kind \in {"needs_input", "preview"} : Tells(c, kind)
     \/ tool.prepares /\ Tells(c, "needs_input")
  /\ UNCHANGED change

\* The caller may be told, or not.
Write(c) ==
  /\ Open(c)
  /\ Confirms(tool, input[c])
  /\ Needs(tool, input[c]) \subseteq rights[c]
  /\ change = None
  /\ change' = input[c]
  /\ Tells(c, "receipt") \/ answer' = [answer EXCEPT ![c] = Error]

Confirm(c) ==
  /\ Open(c)
  /\ Confirms(tool, input[c])
  /\ change = input[c]
  /\ Tells(c, "receipt")
  /\ UNCHANGED change

Next == \E c \in Calls : Begin(c) \/ Fail(c) \/ Show(c) \/ Write(c) \/ Confirm(c)

Spec == Init /\ [][Next]_vars
=============================================================================
