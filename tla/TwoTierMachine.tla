-------------------------- MODULE TwoTierMachine --------------------------
(***************************************************************************)
(* The bytecode interpreters at work on a program: the first tier for      *)
(* threaded code, the second for the tracing compiler, or both, where a    *)
(* running activation moves from the first to the second (interpreter.py,  *)
(* tier_shifting.py).  Code changes while it runs: the first use of a      *)
(* variable or of a super send rewrites the instruction, for both          *)
(* interpreters and all activations.                                       *)
(***************************************************************************)
EXTENDS ThreadedInterpreter, TracingInterpreter

CONSTANT Expected   \* program -> what the interpreter of trees makes of it

\* "interpret" starts in the first tier unless only the second is used; an
\* activation that waits for the answer of escapedBlock: is in neither loop.
Step == InterpretTier1 \/ InterpretTier2 \/ ReturnEscaped

\* The program is an object that gets the message it starts with.
Init ==
  /\ program \in DOMAIN Programs
  /\ setting \in Settings
  /\ code = [m \in DOMAIN P.methods |->
               IF P.methods[m].kind = "bytecodes" THEN P.methods[m].code ELSE <<>>]
  /\ counts = [m \in DOMAIN code |-> [i \in DOMAIN code[m] |-> 0]]
  /\ globals = P.globals
  /\ objects = <<[class |-> P.entry.class, fields |-> P.entry.fields]>>
  /\ outcome = Running
  /\ LET c == Call(<<"method", P.entry.method>>, <<"obj", 1>>, P.entry.args,
                   Entry(Len(P.entry.args) + 1), FALSE)
     IN /\ acts = <<Activation(c, IF NeedsInner(c) THEN 1 ELSE 0)>>
        /\ inners = IF NeedsInner(c) THEN <<InnerFor(c)>> ELSE <<>>

Done == outcome # Running /\ UNCHANGED vars
Next == Step \/ Done
Spec == Init /\ [][Next]_vars /\ WF_vars(Step)

---------------------------------------------------------------------------
(* Properties.                                                             *)

WellTyped(v) == v[1] \in {"int", "big", "bool", "nil", "sym", "array", "obj", "block",
                      "system"}

\* The state has the shape the interpreters expect: activations of methods
\* with code, in one of the tiers; and no instruction has read a variable, an
\* element of the stack or a field that is not there.
TypeOK ==
  /\ program \in DOMAIN Programs /\ setting \in Settings
  /\ outcome = Running => acts # <<>>
  /\ \A a \in Range(acts) :
       /\ a.m \in DOMAIN code /\ a.tier \in 1..2
       /\ a.frame[1] \in 0..Len(inners)
       /\ \A v \in Range(a.stack) \cup Range(Tail(a.frame)) : WellTyped(v)
  /\ \A o \in Range(objects) : \A v \in Range(o.fields) : WellTyped(v)
  /\ \A v \in Range(globals) : WellTyped(v)

\* Whatever the tiers, and whenever activations move from one to the other,
\* the code the compiler generated answers what the source says, and leaves
\* the receiver as the source does.  Where the interpreter of trees rejects
\* the program, it answers at all.
AnswersAsTheSource ==
  outcome # Running =>
    /\ outcome[1] = "answer"
    /\ Expected[program].answer # <<"unknown">> =>
         /\ outcome[2] = Expected[program].answer
         /\ \A i \in DOMAIN Expected[program].fields :
              \/ objects[1].fields[i] = Expected[program].fields[i]
              \/ objects[1].fields[i][1] = "block" /\ Expected[program].fields[i] = <<"block">>

\* The stack of an activation is as large as the compiler computed by adding
\* up the effects of the instructions in the order they are laid out, though
\* they are executed in another order.
StackFits == \A a \in Range(acts) : Len(a.stack) <= Method(a.m).maxStack

\* Jumps, returns and the continuation in the other tier get to the beginning
\* of an instruction, and rewriting instructions leaves it there.
LandsOnInstructions ==
  \A a \in Range(acts) :
    a.pc \in Method(a.m).starts /\ a.pc + BytecodeLength(code[a.m][a.pc + 1]) \in
      Method(a.m).starts \cup {Len(code[a.m])}

\* A program that ends when it is interpreted as a tree ends.
Terminates == <>(outcome # Running)
============================================================================
