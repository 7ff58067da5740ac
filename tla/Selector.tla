------------------------------ MODULE Selector ------------------------------
(***************************************************************************)
(* What a cadence::Selector promises its client, whichever system call is  *)
(* behind it: it keeps a list of registrations, and one poll hands out, in *)
(* any order, one event for every registration whose descriptor was ready  *)
(* at the time of the poll, or as many as it has room for - no event for   *)
(* anything else, none twice, and the loop ends only when all of them have *)
(* been handed out or the client leaves it.  Each event names the          *)
(* descriptor it occurred on and carries the data that descriptor was      *)
(* registered with (selector.hpp, struct Event).                           *)
(***************************************************************************)
EXTENDS Vector

CONSTANTS Fd,             \* descriptors
          Data,           \* values of the client's void* data
          Masks,          \* sets of native event bits a client asks for
          AlwaysReported, \* bits reported whether asked for or not
          Conditions,     \* the sets of bits the kernel may find raised
          Room            \* how many events one poll can report

VARIABLES
  regs,    \* the registrations, oldest first
  ready,   \* positions in regs that the poll of the walk in progress found ready
  due,     \* those it still owes an event
  report,  \* the last event handed out, <<>> before the first
  stage    \* the client: outside the loop, about to test for its end, or in its body

selectorVars == <<regs, ready, due, report, stage>>

Registration == [fd : Fd, data : Data, events : Masks]

(* The bits the kernel raises for a registration under conditions cond.    *)
Raised(reg, cond) == cond[reg.fd] \cap (reg.events \cup AlwaysReported)

Init ==
  /\ regs = <<>>
  /\ ready = {}
  /\ due = {}
  /\ report = <<>>
  /\ stage = "idle"

Add(reg) ==
  /\ stage = "idle"
  /\ regs' = Append(regs, reg)
  /\ UNCHANGED <<ready, due, report, stage>>

Remove(fd) ==
  /\ stage = "idle"
  /\ regs' = Erase(regs, fd)
  /\ UNCHANGED <<ready, due, report, stage>>

(* All of a set, or, of more than there is room for, as many as there is   *)
(* room for.                                                               *)
Reportable(found) == {S \in SUBSET found : S = found \/ Cardinality(S) = Room}

Poll(cond) ==
  /\ stage = "idle"
  /\ ready' = {i \in 1..Len(regs) : Raised(regs[i], cond) # {}}
  /\ due' \in Reportable(ready')
  /\ stage' = "test"
  /\ UNCHANGED <<regs, report>>

(* Signals kept interrupting the poll: an answer without events, and one   *)
(* that is told apart from a poll that found nothing.                      *)
Interrupted ==
  /\ stage = "idle"
  /\ stage' = "interrupted"
  /\ UNCHANGED <<regs, ready, due, report>>

Deliver(i) ==
  /\ stage = "test"
  /\ i \in due
  /\ due' = due \ {i}
  /\ report' = [fd |-> regs[i].fd, data |-> regs[i].data]
  /\ stage' = "body"
  /\ UNCHANGED <<regs, ready>>

(* The loop body returns.                                                  *)
Continue ==
  /\ stage = "body"
  /\ stage' = "test"
  /\ UNCHANGED <<regs, ready, due, report>>

(* The loop ends by itself only when nothing is due any more.              *)
End ==
  /\ stage \in {"test", "interrupted"}
  /\ due = {}
  /\ ready' = {}
  /\ stage' = "idle"
  /\ UNCHANGED <<regs, due, report>>

(* The client leaves the loop from its body.                               *)
Leave ==
  /\ stage = "body"
  /\ due' = {}
  /\ ready' = {}
  /\ stage' = "idle"
  /\ UNCHANGED <<regs, report>>

Next ==
  \/ \E reg \in Registration : Add(reg)
  \/ \E fd \in Fd : Remove(fd)
  \/ \E cond \in [Fd -> Conditions] : Poll(cond)
  \/ Interrupted
  \/ \E i \in due : Deliver(i)
  \/ Continue
  \/ End
  \/ Leave

Spec == Init /\ [][Next]_selectorVars
=============================================================================
