--------------------------- MODULE MCLocalServer ---------------------------
(* Small instances of LocalServer for TLC. *)
EXTENDS LocalServer

Frame(kind, size) == [kind |-> kind, size |-> size, of |-> 0]

Cancel(i) == [kind |-> "cancel", size |-> 1, of |-> i]

Script(frames, newline, events) == [frames |-> frames, newline |-> newline, events |-> events]

(* Frames at the limit of three bytes and around it, in every arrangement. *)
Framing ==
  {Script(<<Frame("ping", a), Frame(k, b), Frame("ping", c)>>, newline, {}) :
     a \in {2}, k \in {"ping", "malformed"}, b \in {3, 5}, c \in {1, 3, 4}, newline \in BOOLEAN}

Reading ==
  {Script(<<Frame("content", 1), Cancel(1)>>, TRUE, {"expunge"}),
   Script(<<Frame("content", 1)>>, FALSE, {"recreate", "policy"}),
   Script(<<Frame("content", 1)>>, TRUE, {"meddle"}),
   Script(<<Frame("transfer", 1), Cancel(1)>>, TRUE, {"policy"})}

Saving ==
  {Script(<<Frame("attachment", 1), Cancel(1)>>, TRUE, {"policy", "target"}),
   Script(<<Frame("attachment", 1), Frame("attachment", 1)>>, FALSE, {"target"})}

Calling ==
  {Script(<<Frame("protocol", 1)>>, TRUE, {"authority", "refill"}),
   Script(<<Frame("protocol", 1), Cancel(1)>>, TRUE, {"refill"})}

AllScripts == Framing \cup Reading \cup Saving \cup Calling

Lists ==
  {<<"select", "mailbox">>, <<"payload", "plain">>, <<"select", "capability", "payload">>,
   <<"mailbox">>}
=============================================================================
