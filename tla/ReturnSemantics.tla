--------------------------- MODULE ReturnSemantics ---------------------------
(***************************************************************************)
(* What a SOM program is promised about returns.  A block belongs to the   *)
(* method activation it is lexically in, its home.  A return statement     *)
(* inside a block ends the home in one step, with everything it called,    *)
(* if the home is still running.  If the home has returned, the self of    *)
(* the home receives escapedBlock:.  What that answers is the answer of    *)
(* the block, or the value of the return statement, after which the block  *)
(* goes on; the interpreters differ in this.  NonLocalReturn implements    *)
(* this with a marker per context and exceptions that unwind one           *)
(* activation at a time.                                                   *)
(***************************************************************************)
EXTENDS Integers, Sequences

CONSTANTS Ids,        \* identities of activations
          Selves,     \* the receivers of methods
          EscapeEnds  \* is a block over when escapedBlock: has answered?

VARIABLES calls,   \* the running activations, the outermost first
          home,    \* activation -> the method activation it is lexically in
          self,    \* activation -> the receiver of its home
          blocks   \* the activations that created a block

rsVars == <<calls, home, self, blocks>>

RSInit == /\ calls = <<>>
          /\ home = [i \in {} |-> i]
          /\ self = [i \in {} |-> i]
          /\ blocks = {}

Current == calls[Len(calls)]
Running == calls # <<>> /\ ~Current.escaped
Drop(n) == SubSeq(calls, 1, n)

Extend(f, i, v) == [j \in DOMAIN f \cup {i} |-> IF j = i THEN v ELSE f[j]]

Enter(callers, i, h, s) == /\ calls' = Append(callers, [id |-> i, escaped |-> FALSE])
                           /\ home' = Extend(home, i, h)
                           /\ self' = Extend(self, i, s)
                           /\ UNCHANGED blocks

Call(i, s) == /\ calls = <<>> \/ Running
              /\ Enter(calls, i, i, s)

CreateBlock == /\ Running
               /\ blocks' = blocks \cup {Current.id}
               /\ UNCHANGED <<calls, home, self>>

Evaluate(i, b) == /\ Running
                  /\ Enter(calls, i, home[b], self[b])

Return == /\ calls # <<>>
          /\ calls' = Drop(Len(calls) - 1)
          /\ UNCHANGED <<home, self, blocks>>

ReturnFromHome == /\ Running
                  /\ \E n \in DOMAIN calls : /\ calls[n].id = home[Current.id]
                                             /\ calls' = Drop(n - 1)
                  /\ UNCHANGED <<home, self, blocks>>

(* The home has returned: the handler is called on top of the activation     *)
(* that tried to return; if that ends it, it can only answer the result.     *)
Escape(i) == /\ Running
             /\ \A n \in DOMAIN calls : calls[n].id # home[Current.id]
             /\ Enter([calls EXCEPT ![Len(calls)].escaped = EscapeEnds], i, i, self[Current.id])

RSNext == \/ \E i \in Ids \ DOMAIN home :
                \/ \E s \in Selves : Call(i, s)
                \/ \E b \in blocks : Evaluate(i, b)
                \/ Escape(i)
          \/ CreateBlock
          \/ Return
          \/ ReturnFromHome

RSSpec == RSInit /\ [][RSNext]_rsVars
===============================================================================
