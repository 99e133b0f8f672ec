------------------------- MODULE NonLocalReturnProofs -------------------------
(***************************************************************************)
(* Proofs about NonLocalReturn, for every number of activations and every  *)
(* depth of the stack.  They are about the setting in which returns work:  *)
(* in the bytecode interpreter no method has four arguments and no method  *)
(* runs with a block as self.  The AST interpreter has no such limit.      *)
(***************************************************************************)
EXTENDS NonLocalReturn, TLAPS

NoFourArguments == Interpreter = "bc" => 4 \notin Arities
NoBlockSelf == Interpreter = "bc" => BlockReceivers = {}

(* A method that catches is invoked in a way that does, and in the bytecode  *)
(* interpreter the walk to the outer self ends at the home.                  *)
Setting == \A c \in Ids :
              /\ contexts[c].catches => Catches(c)
              /\ Interpreter = "bc" /\ contexts[c].env = <<>> => contexts[c].rcvr = Object

(* An exception is raised for a method that catches and is on the stack.     *)
TargetOnStack == Raising => contexts[target].catches /\ OnStack(target)

Inv == /\ TypeOK
       /\ MarkerTellsTheTruth
       /\ Setting
       /\ TargetOnStack
       /\ failure = "none"

-------------------------------------------------------------------------------
(* Contexts                                                                  *)

LEMMA LastIn ==
    ASSUME NEW S, NEW s \in Seq(S), s # <<>>
    PROVE  Len(s) \in Nat \ {0} /\ s[Len(s)] \in S
  <1>1. Len(s) \in Nat \ {0}
    OBVIOUS
  <1> QED BY <1>1

LEMMA AppendIs ==
    ASSUME NEW S, NEW s \in Seq(S), NEW e \in S
    PROVE  /\ Append(s, e) \in Seq(S) /\ Len(Append(s, e)) = Len(s) + 1
           /\ \A i \in 1 .. Len(s) : Append(s, e)[i] = s[i]
           /\ Append(s, e)[Len(s) + 1] = e
  OBVIOUS

LEMMA SeqGrows ==
    ASSUME NEW S, NEW T, S \subseteq T, NEW s \in Seq(S)
    PROVE  s \in Seq(T)
  <1>1. Len(s) \in Nat /\ s \in [1 .. Len(s) -> S]
    OBVIOUS
  <1>2. s \in [1 .. Len(s) -> T]
    BY <1>1
  <1> QED BY <1>1, <1>2

LEMMA Facts ==
    ASSUME TypeOK
    PROVE  /\ contexts \in Seq(ContextType) /\ Len(contexts) \in Nat
           /\ Ids \subseteq Nat
           /\ \A c \in Ids : c \in Nat /\ contexts[c].env \in Seq(1 .. c - 1)
           /\ stack \in Seq([id : Nat, escaped : BOOLEAN]) /\ Len(stack) \in Nat
  <1>1. contexts \in Seq(ContextType)
    BY DEF TypeOK
  <1>2. Len(contexts) \in Nat
    BY <1>1
  <1>3. \A c \in Ids : c \in Nat
    BY <1>2 DEF Ids
  <1>4. \A c \in Ids : contexts[c].env \in Seq(1 .. c - 1)
    BY DEF TypeOK
  <1>5. stack \in Seq([id : Nat, escaped : BOOLEAN])
    BY DEF TypeOK
  <1>6. Len(stack) \in Nat
    BY <1>5
  <1> QED BY <1>1, <1>2, <1>3, <1>4, <1>5, <1>6

(* The home of a context is a method's context, not younger than it.         *)
LEMMA HomeIsMethod ==
    ASSUME TypeOK, NEW c \in Ids
    PROVE  /\ GetBlockAt(c) \in Ids /\ GetBlockAt(c) <= c
           /\ contexts[GetBlockAt(c)].env = <<>>
           /\ contexts[c].env = <<>> => GetBlockAt(c) = c
  <1>1. c \in Nat /\ Len(contexts) \in Nat
    BY Facts
  <1>2. contexts[c].env \in Seq(1 .. c - 1)
    BY Facts
  <1>3. CASE contexts[c].env = <<>>
    BY <1>1, <1>3 DEF GetBlockAt, Ids
  <1>4. CASE contexts[c].env # <<>>
    <2>1. contexts[c].env[Len(contexts[c].env)] \in 1 .. c - 1
      BY <1>2, <1>4, LastIn
    <2>2. GetBlockAt(c) \in 1 .. c - 1
      BY <2>1, <1>4 DEF GetBlockAt
    <2>3. contexts[GetBlockAt(c)].env = <<>>
      BY DEF TypeOK
    <2> QED BY <2>2, <2>3, <1>1, <1>4 DEF Ids
  <1> QED BY <1>3, <1>4

(* Without a block as self the walk of get_self_dynamically is one step.     *)
LEMMA OuterSelfOfHome ==
    ASSUME TypeOK, Setting, NEW c \in Ids
    PROVE  OuterSelf(c) = contexts[GetBlockAt(c)].rcvr
  <1>1. CASE Interpreter # "bc"
    BY <1>1 DEF OuterSelf
  <1>2. CASE Interpreter = "bc"
    <2>1. \A i \in Ids : contexts[GetBlockAt(i)].rcvr = Object
      BY <1>2, HomeIsMethod DEF Setting
    <2>2. Object \notin Ids
      BY ReturnAssumption, Facts
    <2> DEFINE Walk(f) == [i \in Ids |-> LET rcvr == contexts[GetBlockAt(i)].rcvr
                                         IN IF rcvr \in Ids THEN f[rcvr] ELSE rcvr]
               self == CHOOSE f : f = Walk(f)
               object == [i \in Ids |-> Object]
    <2>3. object = Walk(object)
      BY <2>1, <2>2
    <2>4. self = Walk(self)
      BY <2>3
    <2>5. self[c] = Object
      <3> HIDE DEF self
      <3> QED BY <2>4, <2>1, <2>2
    <2>6. GetSelfDynamically(c) = self[c]
      BY DEF GetSelfDynamically
    <2> QED BY <1>2, <2>1, <2>5, <2>6 DEF OuterSelf
  <1> QED BY <1>1, <1>2

-------------------------------------------------------------------------------
(* One more activation                                                       *)

Frames == [id : Nat, escaped : BOOLEAN]

(* What an action that enters an activation gives it.                        *)
Entered(callers, x) ==
    /\ Ready
    /\ Enter(callers, x)
    /\ UNCHANGED <<blocks, target, failure>>
    /\ callers \in Seq(Frames) /\ Len(callers) = Len(stack)
    /\ \A n \in DOMAIN stack : callers[n].id = stack[n].id
    /\ x \in ContextType /\ x.onStack
    /\ x.rcvr \in {Object, NoContext} \cup Ids
    /\ x.env \in Seq(Ids)
    /\ x.env # <<>> => ~x.catches /\ contexts[x.env[Len(x.env)]].env = <<>>
    /\ x.catches /\ Interpreter = "bc" => x.arity # 4
    /\ x.env = <<>> /\ Interpreter = "bc" => x.rcvr = Object

LEMMA ContextsGrow ==
    ASSUME Inv, NEW callers, NEW x, Entered(callers, x)
    PROVE  /\ contexts' \in Seq(ContextType)
           /\ Len(contexts') = Len(contexts) + 1 /\ Ids' = Ids \cup {Len(contexts) + 1}
           /\ \A c \in Ids : contexts'[c] = contexts[c] /\ GetBlockAt(c)' = GetBlockAt(c)
           /\ \A n : n = Len(contexts) + 1 =>
                 /\ contexts'[n] = x
                 /\ GetBlockAt(n)' = IF x.env = <<>> THEN n ELSE x.env[Len(x.env)]
  <1>1. contexts \in Seq(ContextType) /\ Len(contexts) \in Nat
    BY Facts DEF Inv
  <1>2. contexts' = Append(contexts, x) /\ x \in ContextType
    BY DEF Entered, Enter
  <1>3. contexts' \in Seq(ContextType) /\ Len(contexts') = Len(contexts) + 1
    BY <1>1, <1>2, AppendIs
  <1>4. contexts'[Len(contexts) + 1] = x
    BY <1>1, <1>2, AppendIs
  <1>5. \A c \in Ids : contexts'[c] = contexts[c]
    BY <1>1, <1>2, AppendIs DEF Ids
  <1>6. Ids' = Ids \cup {Len(contexts) + 1}
    BY <1>1, <1>3 DEF Ids
  <1>7. \A c \in Ids : GetBlockAt(c)' = GetBlockAt(c)
    BY <1>5 DEF GetBlockAt
  <1>8. \A n : n = Len(contexts) + 1 =>
           GetBlockAt(n)' = IF x.env = <<>> THEN n ELSE x.env[Len(x.env)]
    BY <1>4 DEF GetBlockAt
  <1> QED BY <1>3, <1>4, <1>5, <1>6, <1>7, <1>8

LEMMA StackGrows ==
    ASSUME Inv, NEW callers, NEW x, Entered(callers, x)
    PROVE  /\ stack' \in Seq(Frames) /\ Len(stack') = Len(stack) + 1
           /\ stack' = Append(callers, Activation(Len(contexts) + 1))
           /\ \A n \in DOMAIN stack : stack'[n].id = stack[n].id
           /\ stack'[Len(stack) + 1].id = Len(contexts) + 1
           /\ \A c : OnStack(c)' <=> OnStack(c) \/ c = Len(contexts) + 1
  <1>1. /\ stack \in Seq(Frames) /\ Len(stack) \in Nat
        /\ Len(contexts) \in Nat
    BY Facts DEF Inv, Frames
  <1>2. /\ stack' = Append(callers, Activation(Len(contexts) + 1))
        /\ callers \in Seq(Frames) /\ Len(callers) = Len(stack)
        /\ \A n \in DOMAIN stack : callers[n].id = stack[n].id
    BY DEF Entered, Enter
  <1>3. /\ Activation(Len(contexts) + 1) \in Frames
        /\ Activation(Len(contexts) + 1).id = Len(contexts) + 1
    BY <1>1 DEF Activation, Frames
  <1>4. stack' \in Seq(Frames) /\ Len(stack') = Len(stack) + 1
    BY <1>1, <1>2, <1>3
  <1>5. DOMAIN stack = 1 .. Len(stack) /\ DOMAIN stack' = 1 .. Len(stack) + 1
    BY <1>1, <1>4
  <1>6. /\ \A n \in 1 .. Len(stack) : stack'[n] = callers[n]
        /\ stack'[Len(stack) + 1] = Activation(Len(contexts) + 1)
    BY <1>2, <1>3, AppendIs
  <1>7. \A n \in DOMAIN stack : stack'[n].id = stack[n].id
    BY <1>2, <1>5, <1>6
  <1>8. stack'[Len(stack) + 1].id = Len(contexts) + 1
    BY <1>3, <1>6
  <1>9. \A c : OnStack(c)' <=> OnStack(c) \/ c = Len(contexts) + 1
    <2> SUFFICES ASSUME NEW c PROVE OnStack(c)' <=> OnStack(c) \/ c = Len(contexts) + 1
      OBVIOUS
    <2>1. OnStack(c)' <=> \E n \in DOMAIN stack' : stack'[n].id = c
      BY DEF OnStack
    <2>2. DOMAIN stack' = DOMAIN stack \cup {Len(stack) + 1}
      BY <1>1, <1>5
    <2> QED BY <2>1, <2>2, <1>7, <1>8 DEF OnStack
  <1> QED BY <1>2, <1>4, <1>7, <1>8, <1>9

LEMMA EnterStep ==
    ASSUME Inv, NEW callers, NEW x, Entered(callers, x)
    PROVE  Inv'
  <1>n. PICK n : n = Len(contexts) + 1
    OBVIOUS
  <1>1. /\ Len(contexts) \in Nat /\ Len(stack) \in Nat
        /\ Ids \subseteq Nat /\ DOMAIN stack = 1 .. Len(stack)
    BY Facts DEF Inv
  <1>2. /\ contexts' \in Seq(ContextType) /\ Len(contexts') = n /\ Ids' = Ids \cup {n}
        /\ \A c \in Ids : contexts'[c] = contexts[c] /\ GetBlockAt(c)' = GetBlockAt(c)
        /\ contexts'[n] = x
        /\ GetBlockAt(n)' = IF x.env = <<>> THEN n ELSE x.env[Len(x.env)]
    BY <1>n, ContextsGrow
  <1>3. /\ stack' \in Seq(Frames) /\ Len(stack') = Len(stack) + 1
        /\ \A m \in DOMAIN stack : stack'[m].id = stack[m].id
        /\ stack'[Len(stack) + 1].id = n
        /\ \A c : OnStack(c)' <=> OnStack(c) \/ c = n
        /\ DOMAIN stack' = DOMAIN stack \cup {Len(stack) + 1}
    <2>1. Len(stack') \in Nat /\ stack' \in Seq(Frames) /\ Len(stack') = Len(stack) + 1
      BY StackGrows, <1>1
    <2>2. DOMAIN stack' = 1 .. Len(stack) + 1
      BY <2>1
    <2> QED BY StackGrows, <1>n, <1>1, <2>2
  <1>4. Ids = 1 .. n - 1 /\ n \notin Ids /\ n \in Nat
    BY <1>1, <1>n DEF Ids
  <1>5. \A m \in DOMAIN stack : stack[m].id \in Ids
    BY DEF Inv, TypeOK
  <1>6. n <= MaxContexts
    BY <1>1, <1>n, ReturnAssumption DEF Entered, Enter
  <1>7. TypeOK'
    <2>1. ASSUME NEW c \in Ids'
          PROVE  /\ contexts'[c].rcvr \in {Object, NoContext} \cup 1 .. c - 1
                 /\ contexts'[c].env \in Seq(1 .. c - 1)
                 /\ contexts'[c].env # <<>> => ~contexts'[c].catches
                 /\ contexts'[GetBlockAt(c)'].env = <<>>
      <3>1. CASE c \in Ids
        <4>1. /\ contexts[c].rcvr \in {Object, NoContext} \cup 1 .. c - 1
              /\ contexts[c].env # <<>> => ~contexts[c].catches
          BY <3>1 DEF Inv, TypeOK
        <4>2. contexts[c].env \in Seq(1 .. c - 1)
          BY <3>1, Facts DEF Inv
        <4>3. GetBlockAt(c) \in Ids /\ contexts[GetBlockAt(c)].env = <<>>
          BY <3>1, HomeIsMethod DEF Inv
        <4> QED BY <3>1, <4>1, <4>2, <4>3, <1>2
      <3>2. CASE c = n
        <4>1. /\ x.rcvr \in {Object, NoContext} \cup 1 .. c - 1
              /\ x.env # <<>> => ~x.catches
          BY <3>2, <1>4 DEF Entered
        <4>2. x.env \in Seq(1 .. c - 1)
          BY <3>2, <1>4 DEF Entered
        <4>3. contexts'[GetBlockAt(n)'].env = <<>>
          <5>1. CASE x.env = <<>>
            BY <5>1, <1>2
          <5>2. CASE x.env # <<>>
            <6>1. x.env \in Seq(Ids) /\ contexts[x.env[Len(x.env)]].env = <<>>
              BY <5>2 DEF Entered
            <6>2. x.env[Len(x.env)] \in Ids
              BY <6>1, <5>2, LastIn
            <6> QED BY <5>2, <6>1, <6>2, <1>2
          <5> QED BY <5>1, <5>2
        <4>4. contexts'[c] = x /\ GetBlockAt(c)' = GetBlockAt(n)'
          BY <3>2, <1>2
        <4> QED BY <4>1, <4>2, <4>3, <4>4
      <3> QED BY <3>1, <3>2, <1>2
    <2>2. \A m \in DOMAIN stack' : stack'[m].id \in Ids'
      BY <1>2, <1>3, <1>5
    <2>3. ASSUME NEW k \in DOMAIN stack', NEW m \in DOMAIN stack', k < m
          PROVE  stack'[k].id < stack'[m].id
      <3>1. k \in DOMAIN stack /\ stack[k].id \in Ids
        BY <2>3, <1>1, <1>3, <1>5
      <3>2. CASE m \in DOMAIN stack
        <4>1. stack[k].id < stack[m].id
          BY <3>1, <3>2, <2>3 DEF Inv, TypeOK
        <4> QED BY <4>1, <3>1, <3>2, <1>3
      <3>3. CASE m = Len(stack) + 1
        BY <3>1, <3>3, <1>3, <1>4
      <3> QED BY <3>2, <3>3, <1>3
    <2>4. /\ blocks' \subseteq Ids' /\ target' \in Ids' \cup {NoContext}
          /\ failure' \in {"none", "uncaught", "marked twice", "no outer"}
      BY <1>2 DEF Inv, TypeOK, Entered
    <2> QED BY <2>1, <2>2, <2>3, <2>4, <1>2, <1>3, <1>6 DEF TypeOK, Frames
  <1>8. MarkerTellsTheTruth'
    <2> SUFFICES ASSUME NEW c \in Ids', contexts'[c].catches
                 PROVE  contexts'[c].onStack <=> OnStack(c)'
      BY DEF MarkerTellsTheTruth, IsOnStack
    <2>1. CASE c \in Ids
      BY <2>1, <1>2, <1>3, <1>4 DEF Inv, MarkerTellsTheTruth, IsOnStack
    <2>2. CASE c = n
      BY <2>2, <1>2, <1>3 DEF Entered
    <2> QED BY <2>1, <2>2, <1>2
  <1>9. Setting'
    <2>1. \A c \in Ids' : contexts'[c].catches /\ Interpreter = "bc" => contexts'[c].arity # 4
      BY <1>2 DEF Inv, Setting, Catches, Entered
    <2>2. \A c \in Ids' :
             Interpreter = "bc" /\ contexts'[c].env = <<>> => contexts'[c].rcvr = Object
      BY <1>2 DEF Inv, Setting, Entered
    <2> QED BY <2>1, <2>2 DEF Setting, Catches
  <1>10. TargetOnStack' /\ failure' = "none"
    BY DEF Inv, Entered, Ready, Raising, TargetOnStack
  <1> QED BY <1>7, <1>8, <1>9, <1>10 DEF Inv

-------------------------------------------------------------------------------
(* One activation less                                                       *)

Left == stack # <<>> /\ Leave(Top) /\ stack' = Pop /\ blocks' = blocks

LEMMA TopIsOnStack ==
    ASSUME TypeOK, stack # <<>>
    PROVE  /\ Len(stack) \in Nat \ {0} /\ DOMAIN stack = 1 .. Len(stack)
           /\ Top \in Ids /\ OnStack(Top)
           /\ \A m \in 1 .. Len(stack) - 1 : stack[m].id < Top /\ stack[m].id # Top
  <1>1. Len(stack) \in Nat /\ stack \in Seq([id : Nat, escaped : BOOLEAN])
    BY Facts
  <1>2. Len(stack) \in Nat \ {0} /\ DOMAIN stack = 1 .. Len(stack)
    BY <1>1
  <1>3. \A m \in DOMAIN stack : stack[m].id \in Ids
    BY DEF TypeOK
  <1>4. \A m, n \in DOMAIN stack : m < n => stack[m].id < stack[n].id
    BY DEF TypeOK
  <1>5. \A m \in 1 .. Len(stack) - 1 : m \in DOMAIN stack /\ m < Len(stack)
    BY <1>2
  <1>6. Top \in Ids /\ OnStack(Top)
    BY <1>2, <1>3 DEF Top, OnStack
  <1>7. \A m \in 1 .. Len(stack) - 1 : stack[m].id < Top
    BY <1>2, <1>4, <1>5 DEF Top
  <1>8. \A m \in 1 .. Len(stack) - 1 : stack[m].id \in Nat /\ Top \in Nat
    BY <1>3, <1>5, <1>6, Facts
  <1> QED BY <1>2, <1>6, <1>7, <1>8

LEMMA StackShrinks ==
    ASSUME Inv, Left
    PROVE  /\ stack' \in Seq(Frames) /\ Len(stack') = Len(stack) - 1
           /\ DOMAIN stack' = 1 .. Len(stack) - 1
           /\ \A m \in DOMAIN stack' : stack'[m] = stack[m]
           /\ \A c : OnStack(c)' <=> OnStack(c) /\ c # Top
  <1>1. /\ stack \in Seq(Frames) /\ Len(stack) \in Nat \ {0}
        /\ DOMAIN stack = 1 .. Len(stack)
        /\ \A m \in 1 .. Len(stack) - 1 : stack[m].id # Top
    BY Facts, TopIsOnStack DEF Inv, Left, Frames
  <1>2. stack' = SubSeq(stack, 1, Len(stack) - 1)
    BY DEF Left, Pop
  <1>3. /\ stack' \in Seq(Frames) /\ Len(stack') = Len(stack) - 1
        /\ \A m \in 1 .. Len(stack) - 1 : stack'[m] = stack[m]
    BY <1>1, <1>2
  <1>4. DOMAIN stack' = 1 .. Len(stack) - 1
    BY <1>1, <1>3
  <1>5. DOMAIN stack = DOMAIN stack' \cup {Len(stack)}
    BY <1>1, <1>4
  <1>6. \A c : OnStack(c)' <=> \E m \in DOMAIN stack' : stack[m].id = c
    BY <1>3, <1>4 DEF OnStack
  <1>7. \A c : OnStack(c)' <=> OnStack(c) /\ c # Top
    BY <1>1, <1>4, <1>5, <1>6 DEF OnStack, Top
  <1> QED BY <1>3, <1>4, <1>7

LEMMA OnlyMarkerChanges ==
    ASSUME Inv, Left
    PROVE  /\ contexts' \in Seq(ContextType) /\ Len(contexts') = Len(contexts) /\ Ids' = Ids
           /\ \A c \in Ids :
                 /\ contexts'[c].catches = contexts[c].catches
                 /\ contexts'[c].arity = contexts[c].arity
                 /\ contexts'[c].env = contexts[c].env
                 /\ contexts'[c].rcvr = contexts[c].rcvr
                 /\ GetBlockAt(c)' = GetBlockAt(c)
                 /\ contexts'[c].onStack = (contexts[c].onStack /\ ~(c = Top /\ Catches(Top)))
           /\ failure' = "none"
  <1>1. /\ contexts \in Seq(ContextType) /\ Len(contexts) \in Nat /\ Top \in Ids
        /\ Ids = 1 .. Len(contexts) /\ OnStack(Top)
    BY Facts, TopIsOnStack DEF Inv, Left, Ids
  <1>2. contexts' = IF Catches(Top) THEN [contexts EXCEPT ![Top].onStack = FALSE] ELSE contexts
    BY DEF Left, Leave, MarkAsNoLongerOnStack
  <1>3. \A c \in Ids : contexts[c] \in ContextType
    BY <1>1
  <1>4. /\ contexts' \in Seq(ContextType) /\ Len(contexts') = Len(contexts)
    <2>1. [contexts[Top] EXCEPT !.onStack = FALSE] \in ContextType
      BY <1>1, <1>3 DEF ContextType
    <2>2. contexts' = IF Catches(Top)
                      THEN [contexts EXCEPT ![Top] = [contexts[Top] EXCEPT !.onStack = FALSE]]
                      ELSE contexts
      BY <1>1, <1>2
    <2> QED BY <1>1, <2>1, <2>2
  <1>5. ASSUME NEW c \in Ids
        PROVE  /\ contexts'[c].catches = contexts[c].catches
               /\ contexts'[c].arity = contexts[c].arity
               /\ contexts'[c].env = contexts[c].env
               /\ contexts'[c].rcvr = contexts[c].rcvr
               /\ contexts'[c].onStack = (contexts[c].onStack /\ ~(c = Top /\ Catches(Top)))
    <2>1. PICK y : y = [contexts[Top] EXCEPT !.onStack = FALSE]
      OBVIOUS
    <2>2. /\ y.catches = contexts[Top].catches /\ y.arity = contexts[Top].arity
          /\ y.env = contexts[Top].env /\ y.rcvr = contexts[Top].rcvr
          /\ y.onStack = FALSE
      <3>1. contexts[Top] \in ContextType
        BY <1>1, <1>3
      <3> QED BY <2>1, <3>1 DEF ContextType
    <2>3. contexts' = IF Catches(Top) THEN [contexts EXCEPT ![Top] = y] ELSE contexts
      BY <1>1, <1>2, <2>1
    <2>4. contexts'[c] = IF Catches(Top) /\ c = Top THEN y ELSE contexts[c]
      BY <1>1, <2>3
    <2>5. contexts[c].onStack \in BOOLEAN
      BY <1>3 DEF ContextType
    <2> QED BY <2>2, <2>4, <2>5
  <1>6. Ids' = Ids
    BY <1>4 DEF Ids
  <1>7. \A c \in Ids : GetBlockAt(c)' = GetBlockAt(c)
    BY <1>5 DEF GetBlockAt
  <1>8. failure' = "none"
    BY <1>1 DEF Inv, Left, Leave, MarkerTellsTheTruth, Catches
  <1> QED BY <1>4, <1>5, <1>6, <1>7, <1>8

LEMMA LeaveStep ==
    ASSUME Inv, Left, \/ target' = NoContext
                      \/ target' = target /\ Raising /\ target # Top
    PROVE  Inv'
  <1>1. /\ stack' \in Seq(Frames) /\ Len(stack') = Len(stack) - 1
        /\ DOMAIN stack' = 1 .. Len(stack) - 1
        /\ \A m \in DOMAIN stack' : stack'[m] = stack[m]
        /\ \A c : OnStack(c)' <=> OnStack(c) /\ c # Top
    BY StackShrinks
  <1>2. /\ contexts' \in Seq(ContextType) /\ Len(contexts') = Len(contexts) /\ Ids' = Ids
        /\ \A c \in Ids :
              /\ contexts'[c].catches = contexts[c].catches
              /\ contexts'[c].arity = contexts[c].arity
              /\ contexts'[c].env = contexts[c].env
              /\ contexts'[c].rcvr = contexts[c].rcvr
              /\ GetBlockAt(c)' = GetBlockAt(c)
              /\ contexts'[c].onStack = (contexts[c].onStack /\ ~(c = Top /\ Catches(Top)))
        /\ failure' = "none"
    BY OnlyMarkerChanges
  <1>3. DOMAIN stack' \subseteq DOMAIN stack
    BY <1>1, TopIsOnStack DEF Inv, Left
  <1>4. TypeOK'
    <2>1. ASSUME NEW c \in Ids'
          PROVE  /\ contexts'[c].rcvr \in {Object, NoContext} \cup 1 .. c - 1
                 /\ contexts'[c].env \in Seq(1 .. c - 1)
                 /\ contexts'[c].env # <<>> => ~contexts'[c].catches
                 /\ contexts'[GetBlockAt(c)'].env = <<>>
      <3>1. /\ contexts[c].rcvr \in {Object, NoContext} \cup 1 .. c - 1
            /\ contexts[c].env # <<>> => ~contexts[c].catches
        BY <1>2 DEF Inv, TypeOK
      <3>2. contexts[c].env \in Seq(1 .. c - 1)
        BY <1>2, Facts DEF Inv
      <3>3. GetBlockAt(c) \in Ids /\ contexts[GetBlockAt(c)].env = <<>>
        BY <1>2, HomeIsMethod DEF Inv
      <3> QED BY <3>1, <3>2, <3>3, <1>2
    <2>2. \A m \in DOMAIN stack' : stack'[m].id \in Ids'
      BY <1>1, <1>2, <1>3 DEF Inv, TypeOK
    <2>3. \A k, m \in DOMAIN stack' : k < m => stack'[k].id < stack'[m].id
      BY <1>1, <1>3 DEF Inv, TypeOK
    <2>4. /\ Len(contexts') <= MaxContexts /\ blocks' \subseteq Ids'
          /\ target' \in Ids' \cup {NoContext}
          /\ failure' \in {"none", "uncaught", "marked twice", "no outer"}
      BY <1>2 DEF Inv, TypeOK, Left
    <2> QED BY <2>1, <2>2, <2>3, <2>4, <1>1, <1>2 DEF TypeOK, Frames
  <1>5. MarkerTellsTheTruth'
    BY <1>1, <1>2 DEF Inv, MarkerTellsTheTruth, IsOnStack, Setting
  <1>6. Setting'
    BY <1>2 DEF Inv, Setting, Catches
  <1>7. TargetOnStack'
    <2>1. CASE target' = NoContext
      BY <2>1 DEF TargetOnStack, Raising
    <2>2. CASE target' = target /\ Raising /\ target # Top
      <3>1. target \in Ids /\ contexts[target].catches /\ OnStack(target)
        BY <2>2 DEF Inv, TargetOnStack, TypeOK, Raising
      <3>2. contexts'[target].catches
        BY <3>1, <1>2
      <3>3. \E m \in DOMAIN stack' : stack'[m].id = target
        BY <3>1, <2>2, <1>1 DEF OnStack
      <3> QED BY <3>2, <3>3, <2>2 DEF TargetOnStack, OnStack
    <2> QED BY <2>1, <2>2
  <1> QED BY <1>2, <1>4, <1>5, <1>6, <1>7 DEF Inv

-------------------------------------------------------------------------------
(* The actions                                                               *)

LEMMA InvokeMethodEnters ==
    ASSUME Inv, NoFourArguments, NoBlockSelf,
           NEW catches \in BOOLEAN, NEW arity \in Arities, NEW rcvr \in Receivers,
           InvokeMethod(catches, arity, rcvr)
    PROVE  Entered(stack, Context(catches, arity, <<>>, rcvr))
  <1> DEFINE x == Context(catches, arity, <<>>, rcvr)
  <1>1. /\ rcvr \in {Object, NoContext} \cup Ids
        /\ Interpreter = "bc" => rcvr = Object
    BY DEF Receivers, NoBlockSelf, Inv, TypeOK
  <1>2. arity \in Nat /\ Ids \subseteq Nat
    BY ReturnAssumption, Facts DEF Inv
  <1>3. x \in ContextType
    <2>1. <<>> \in Seq(Nat)
      OBVIOUS
    <2>2. rcvr \in {Object, NoContext} \cup Nat
      BY <1>1, <1>2
    <2> QED BY <2>1, <2>2, <1>2 DEF Context, ContextType
  <1>4. /\ x.onStack /\ x.rcvr = rcvr /\ x.env = <<>> /\ x.arity = arity
    BY DEF Context
  <1>5. x.arity = 4 => Interpreter # "bc"
    BY <1>4 DEF NoFourArguments
  <1>6. stack \in Seq(Frames)
    BY Facts DEF Inv, Frames
  <1>7. <<>> \in Seq(Ids)
    OBVIOUS
  <1> HIDE DEF x
  <1>8. /\ Ready /\ Enter(stack, x) /\ UNCHANGED <<blocks, target, failure>>
    BY DEF InvokeMethod, x
  <1>9. Entered(stack, x)
    BY <1>1, <1>3, <1>4, <1>5, <1>6, <1>7, <1>8 DEF Entered
  <1> QED BY <1>9 DEF x

LEMMA InvokeBlockEnters ==
    ASSUME Inv, NEW b \in blocks, InvokeBlock(b)
    PROVE  LET x == Context(FALSE, 1, <<b>> \o contexts[b].env, b)
           IN /\ Entered(stack, x)
              /\ x.env # <<>> /\ x.env[Len(x.env)] = GetBlockAt(b)
  <1> DEFINE env == <<b>> \o contexts[b].env
             x == Context(FALSE, 1, env, b)
  <1>1. b \in Ids /\ Ids \subseteq Nat
    BY Facts DEF Inv, TypeOK
  <1>2. contexts[b].env \in Seq(Ids)
    <2>1. contexts[b].env \in Seq(1 .. b - 1)
      BY <1>1, Facts DEF Inv
    <2>2. 1 .. b - 1 \subseteq Ids
      BY <1>1, Facts DEF Ids, Inv
    <2> QED BY <2>1, <2>2, SeqGrows
  <1>3. env \in Seq(Ids) /\ env # <<>> /\ env[Len(env)] = GetBlockAt(b)
    <2> DEFINE e == contexts[b].env
    <2>1. e \in Seq(Ids) /\ Len(e) \in Nat /\ <<b>> \in Seq(Ids) /\ Len(<<b>>) = 1
      BY <1>1, <1>2
    <2>2. GetBlockAt(b) = IF e = <<>> THEN b ELSE e[Len(e)]
      BY DEF GetBlockAt
    <2> HIDE DEF e
    <2>3. <<b>> \o e \in Seq(Ids) /\ Len(<<b>> \o e) = 1 + Len(e)
      BY <2>1
    <2>4. e # <<>> => (<<b>> \o e)[1 + Len(e)] = e[Len(e)]
      BY <2>1
    <2>5. e = <<>> => (<<b>> \o e)[1] = b
      BY <2>1
    <2>6. e = <<>> => Len(e) = 0
      BY <2>1
    <2>7. <<b>> \o e # <<>>
      BY <2>1, <2>3
    <2> QED BY <2>1, <2>2, <2>3, <2>4, <2>5, <2>6, <2>7 DEF e
  <1>4. GetBlockAt(b) \in Ids /\ contexts[GetBlockAt(b)].env = <<>>
    BY <1>1, HomeIsMethod DEF Inv
  <1>5. stack \in Seq(Frames)
    BY Facts DEF Inv, Frames
  <1> HIDE DEF env
  <1>6. x \in ContextType
    <2>1. env \in Seq(Nat)
      BY <1>1, <1>3, SeqGrows
    <2> QED BY <2>1, <1>1 DEF Context, ContextType
  <1>7. /\ x.onStack /\ x.rcvr = b /\ x.env = env /\ x.arity = 1 /\ x.catches = FALSE
    BY DEF Context
  <1> HIDE DEF x
  <1>8. Ready /\ Enter(stack, x) /\ UNCHANGED <<blocks, target, failure>>
    BY DEF InvokeBlock, Executing, x, env
  <1>9. Entered(stack, x)
    BY <1>1, <1>3, <1>4, <1>5, <1>6, <1>7, <1>8 DEF Entered
  <1> QED BY <1>3, <1>7, <1>9 DEF x, env

LEMMA SendEscapedBlockEnters ==
    ASSUME Inv, NEW catches \in BOOLEAN, SendEscapedBlock(catches)
    PROVE  Entered([stack EXCEPT ![Len(stack)].escaped = EscapeEndsBlock],
                   Context(catches, 2, <<>>, contexts[GetBlockAt(Top)].rcvr))
  <1> DEFINE rcvr == contexts[GetBlockAt(Top)].rcvr
             x == Context(catches, 2, <<>>, rcvr)
             callers == [stack EXCEPT ![Len(stack)].escaped = EscapeEndsBlock]
  <1>1. stack # <<>> /\ Ready
    BY DEF SendEscapedBlock, ReturnsNonLocally, Executing
  <1>2. Top \in Ids /\ GetBlockAt(Top) \in Ids /\ contexts[GetBlockAt(Top)].env = <<>>
    BY <1>1, TopIsOnStack, HomeIsMethod DEF Inv
  <1>3. OuterSelf(Top) = rcvr
    BY <1>2, OuterSelfOfHome DEF Inv
  <1>4. Interpreter = "bc" => rcvr = Object
    BY <1>2 DEF Inv, Setting
  <1>5. rcvr \in {Object, NoContext} \cup Ids
    <2>1. rcvr \in {Object, NoContext} \cup 1 .. GetBlockAt(Top) - 1
      BY <1>2 DEF Inv, TypeOK
    <2>2. 1 .. GetBlockAt(Top) - 1 \subseteq Ids
      BY <1>2, Facts DEF Inv, Ids
    <2> QED BY <2>1, <2>2
  <1>6. callers \in Seq(Frames) /\ Len(callers) = Len(stack)
        /\ \A n \in DOMAIN stack : callers[n].id = stack[n].id
    <2>1. /\ stack \in Seq(Frames) /\ Len(stack) \in Nat \ {0}
          /\ DOMAIN stack = 1 .. Len(stack)
      BY <1>1, Facts, TopIsOnStack DEF Inv, Frames
    <2>2. stack[Len(stack)] \in Frames
      BY <2>1
    <2>3. PICK y : y = [stack[Len(stack)] EXCEPT !.escaped = EscapeEndsBlock]
      OBVIOUS
    <2>4. y \in Frames /\ y.id = stack[Len(stack)].id
      BY <2>2, <2>3 DEF Frames, EscapeEndsBlock
    <2>5. callers = [stack EXCEPT ![Len(stack)] = y]
      BY <2>1, <2>3
    <2> HIDE DEF callers
    <2> QED BY <2>1, <2>4, <2>5
  <1>7. x \in ContextType
    <2>1. <<>> \in Seq(Nat) /\ rcvr \in {Object, NoContext} \cup Nat
      BY <1>5, Facts DEF Inv
    <2> QED BY <2>1 DEF Context, ContextType
  <1>8. x.onStack /\ x.rcvr = rcvr /\ x.env = <<>> /\ x.arity = 2
    BY DEF Context
  <1>9. Enter(callers, x) /\ UNCHANGED <<blocks, target, failure>>
    <2>1. ~(OuterSelf(Top) = NoContext /\ Interpreter = "bc")
      BY <1>3, <1>4, ReturnAssumption
    <2>2. /\ Enter(callers, Context(catches, 2, <<>>, OuterSelf(Top)))
          /\ UNCHANGED <<blocks, target, failure>>
      BY <2>1 DEF SendEscapedBlock
    <2> QED BY <2>2, <1>3
  <1>10. <<>> \in Seq(Ids)
    OBVIOUS
  <1> HIDE DEF x, callers, rcvr
  <1>11. Entered(callers, x)
    BY <1>1, <1>4, <1>5, <1>6, <1>7, <1>8, <1>9, <1>10 DEF Entered
  <1> QED BY <1>11 DEF x, callers, rcvr

LEMMA RaiseStep == ASSUME Inv, Raise PROVE Inv'
  <1>1. stack # <<>>
    BY DEF Raise, ReturnsNonLocally, Executing
  <1>2. GetBlockAt(Top) \in Ids
    BY <1>1, TopIsOnStack, HomeIsMethod DEF Inv
  <1>3. OnStack(GetBlockAt(Top)) /\ contexts[GetBlockAt(Top)].catches
    BY <1>2 DEF Raise, ReturnsNonLocally, Inv, MarkerTellsTheTruth
  <1>4. UNCHANGED <<contexts, stack, blocks, failure>> /\ target' = GetBlockAt(Top)
    BY DEF Raise
  <1>5. TypeOK'
    BY <1>2, <1>4 DEF Inv, TypeOK, Ids, GetBlockAt
  <1>6. MarkerTellsTheTruth' /\ Setting'
    BY <1>4 DEF Inv, MarkerTellsTheTruth, Setting, Ids, IsOnStack, OnStack, Catches
  <1>7. TargetOnStack'
    BY <1>3, <1>4 DEF TargetOnStack, OnStack
  <1> QED BY <1>4, <1>5, <1>6, <1>7 DEF Inv

LEMMA PushBlockStep == ASSUME Inv, PushBlock PROVE Inv'
  <1>1. stack # <<>>
    BY DEF PushBlock, Executing
  <1>2. Top \in Ids
    BY <1>1, TopIsOnStack DEF Inv
  <1>3. UNCHANGED <<contexts, stack, target, failure>> /\ blocks' = blocks \cup {Top}
    BY DEF PushBlock
  <1>4. TypeOK'
    BY <1>2, <1>3 DEF Inv, TypeOK, Ids, GetBlockAt
  <1>5. MarkerTellsTheTruth' /\ Setting' /\ TargetOnStack'
    BY <1>3 DEF Inv, MarkerTellsTheTruth, Setting, Ids, IsOnStack, OnStack, Catches,
                TargetOnStack, Raising
  <1> QED BY <1>3, <1>4, <1>5 DEF Inv

LEMMA ReturnLocalLeaves ==
    ASSUME Inv, ReturnLocal
    PROVE  Left /\ target' = NoContext /\ Ready
  BY DEF ReturnLocal, Left, Ready, Raising

(* An exception is never without an activation to leave.                     *)
LEMMA UnwindLeaves ==
    ASSUME Inv, Unwind
    PROVE  /\ Left /\ Raising
           /\ \/ target' = NoContext /\ target = Top
              \/ target' = target /\ target # Top
  <1>1. Raising /\ contexts[target].catches /\ OnStack(target) /\ target \in Ids
    BY DEF Unwind, Inv, TargetOnStack, TypeOK, Raising
  <1>2. stack # <<>>
    BY <1>1 DEF OnStack
  <1>3. Left /\ target' = IF Catches(Top) /\ Top = target THEN NoContext ELSE target
    BY <1>2 DEF Unwind, Left
  <1>4. Top = target => Catches(Top)
    BY <1>1 DEF Inv, Setting
  <1> QED BY <1>1, <1>3, <1>4

LEMMA NextStep ==
    ASSUME NoFourArguments, NoBlockSelf, Inv, [Next]_vars
    PROVE  Inv'
  <1>1. ASSUME NEW catches \in BOOLEAN, NEW arity \in Arities, NEW rcvr \in Receivers,
               InvokeMethod(catches, arity, rcvr)
        PROVE  Inv'
    BY <1>1, InvokeMethodEnters, EnterStep
  <1>2. CASE PushBlock
    BY <1>2, PushBlockStep
  <1>3. ASSUME NEW b \in blocks, InvokeBlock(b) PROVE Inv'
    BY <1>3, InvokeBlockEnters, EnterStep
  <1>4. CASE ReturnLocal
    BY <1>4, ReturnLocalLeaves, LeaveStep
  <1>5. CASE Raise
    BY <1>5, RaiseStep
  <1>6. ASSUME NEW catches \in BOOLEAN, SendEscapedBlock(catches) PROVE Inv'
    BY <1>6, SendEscapedBlockEnters, EnterStep
  <1>7. CASE Unwind
    BY <1>7, UnwindLeaves, LeaveStep
  <1>8. CASE UNCHANGED vars
    <2>1. UNCHANGED <<contexts, stack, blocks, target, failure>>
      BY <1>8 DEF vars
    <2>2. TypeOK'
      BY <2>1 DEF Inv, TypeOK, Ids, GetBlockAt
    <2> QED BY <2>1, <2>2 DEF Inv, MarkerTellsTheTruth, Setting, Ids, IsOnStack, OnStack,
                              Catches, TargetOnStack, Raising
  <1> QED BY <1>1, <1>2, <1>3, <1>4, <1>5, <1>6, <1>7, <1>8 DEF Next

LEMMA InitStep == Init => Inv
  <1> SUFFICES ASSUME Init PROVE Inv
    OBVIOUS
  <1>1. contexts = <<>> /\ stack = <<>> /\ blocks = {} /\ target = NoContext /\ failure = "none"
    BY DEF Init
  <1>2. Ids = {} /\ Len(contexts) = 0 /\ DOMAIN stack = {}
    BY <1>1 DEF Ids
  <1>3. contexts \in Seq(ContextType) /\ stack \in Seq([id : Nat, escaped : BOOLEAN])
    BY <1>1
  <1>4. TypeOK
    BY <1>1, <1>2, <1>3, ReturnAssumption DEF TypeOK
  <1> QED BY <1>1, <1>2, <1>4 DEF Inv, MarkerTellsTheTruth, Setting, TargetOnStack, Raising

-------------------------------------------------------------------------------
(* Refinement                                                                *)

Home == [c \in Ids |-> GetBlockAt(c)]
Self == [c \in Ids |-> contexts[GetBlockAt(c)].rcvr]

(* While an exception is under way the activations below its target show.    *)
LEMMA VisibleWhileRaising ==
    ASSUME Inv, Raising, NEW n \in DOMAIN stack, stack[n].id = target
    PROVE  Visible = SubSeq(stack, 1, n - 1)
  <1>1. DOMAIN stack \subseteq Nat
    BY Facts DEF Inv
  <1>2. \A m \in DOMAIN stack : stack[m].id \in Nat
    BY Facts DEF Inv, TypeOK
  <1>3. \A m \in DOMAIN stack : stack[m].id = target => m = n
    <2> SUFFICES ASSUME NEW m \in DOMAIN stack, stack[m].id = target, m # n PROVE FALSE
      OBVIOUS
    <2>1. m < n \/ n < m
      BY <1>1
    <2>2. stack[m].id < stack[n].id \/ stack[n].id < stack[m].id
      BY <2>1 DEF Inv, TypeOK
    <2> QED BY <2>2, <1>2
  <1>4. (CHOOSE m \in DOMAIN stack : stack[m].id = target) = n
    BY <1>3
  <1> QED BY <1>4 DEF Visible

(* What entering an activation shows to the abstract specification: h is the *)
(* home and r its receiver.                                                  *)
LEMMA EnterShows ==
    ASSUME Inv, NEW callers, NEW x, Entered(callers, x), NEW n, n = Len(contexts) + 1
    PROVE  LET h == IF x.env = <<>> THEN n ELSE x.env[Len(x.env)]
               r == IF x.env = <<>> THEN x.rcvr ELSE contexts[h].rcvr
           IN /\ Visible = stack
              /\ n \in 1 .. MaxContexts \ Ids
              /\ Visible' = Append(callers, [id |-> n, escaped |-> FALSE])
              /\ Home' = RS!Extend(Home, n, h) /\ Self' = RS!Extend(Self, n, r)
  <1> DEFINE h == IF x.env = <<>> THEN n ELSE x.env[Len(x.env)]
             r == IF x.env = <<>> THEN x.rcvr ELSE contexts[h].rcvr
  <1>1. Len(contexts) \in Nat /\ Ids = 1 .. Len(contexts) /\ Len(contexts) < MaxContexts
    BY Facts DEF Inv, Ids, Entered, Enter
  <1>2. n \in 1 .. MaxContexts \ Ids
    BY <1>1, ReturnAssumption
  <1>3. ~Raising /\ ~Raising'
    BY DEF Entered, Ready, Raising
  <1>4. Visible = stack /\ Visible' = Append(callers, [id |-> n, escaped |-> FALSE])
    BY <1>3, StackGrows DEF Visible, Activation
  <1>5. /\ Ids' = Ids \cup {n} /\ contexts'[n] = x /\ GetBlockAt(n)' = h
        /\ \A c \in Ids : contexts'[c] = contexts[c] /\ GetBlockAt(c)' = GetBlockAt(c)
    BY ContextsGrow
  <1>6. \A c \in Ids : GetBlockAt(c) \in Ids
    BY HomeIsMethod DEF Inv
  <1>7. x.env # <<>> => h \in Ids
    BY LastIn DEF Entered
  <1>8. contexts'[GetBlockAt(n)'].rcvr = r
    BY <1>5, <1>7
  <1> HIDE DEF h, r
  <1>9. Home' = RS!Extend(Home, n, h)
    <2>1. Home' = [c \in Ids' |-> GetBlockAt(c)']
      BY DEF Home
    <2>2. RS!Extend(Home, n, h) = [c \in Ids \cup {n} |-> IF c = n THEN h ELSE GetBlockAt(c)]
      BY DEF RS!Extend, Home
    <2> QED BY <2>1, <2>2, <1>5
  <1>10. Self' = RS!Extend(Self, n, r)
    <2>1. Self' = [c \in Ids' |-> contexts'[GetBlockAt(c)'].rcvr]
      BY DEF Self
    <2>2. RS!Extend(Self, n, r) =
             [c \in Ids \cup {n} |-> IF c = n THEN r ELSE contexts[GetBlockAt(c)].rcvr]
      BY DEF RS!Extend, Self
    <2>3. \A c \in Ids : contexts'[GetBlockAt(c)'].rcvr = contexts[GetBlockAt(c)].rcvr
      BY <1>5, <1>6
    <2> QED BY <2>1, <2>2, <2>3, <1>5, <1>8
  <1> QED BY <1>2, <1>4, <1>9, <1>10 DEF h, r

(* Leaving an activation shows nothing but the shorter stack.                *)
LEMMA LeaveShows ==
    ASSUME Inv, Left
    PROVE  Home' = Home /\ Self' = Self
  <1>1. /\ Ids' = Ids
        /\ \A c \in Ids : /\ contexts'[c].rcvr = contexts[c].rcvr
                          /\ GetBlockAt(c)' = GetBlockAt(c)
    BY OnlyMarkerChanges
  <1>2. \A c \in Ids : GetBlockAt(c) \in Ids
    BY HomeIsMethod DEF Inv
  <1>3. \A c \in Ids : contexts'[GetBlockAt(c)'].rcvr = contexts[GetBlockAt(c)].rcvr
    BY <1>1, <1>2
  <1> QED BY <1>1, <1>3 DEF Home, Self

LEMMA CallRefines ==
    ASSUME Inv, NoFourArguments, NoBlockSelf,
           NEW catches \in BOOLEAN, NEW arity \in Arities, NEW rcvr \in Receivers,
           InvokeMethod(catches, arity, rcvr)
    PROVE  RS!RSNext
  <1> DEFINE x == Context(catches, arity, <<>>, rcvr)
  <1>1. PICK n : n = Len(contexts) + 1
    OBVIOUS
  <1>2. Entered(stack, x) /\ x.env = <<>> /\ x.rcvr = rcvr
    BY InvokeMethodEnters DEF Context
  <1>3. /\ Visible = stack /\ n \in 1 .. MaxContexts \ Ids
        /\ Visible' = Append(stack, [id |-> n, escaped |-> FALSE])
        /\ Home' = RS!Extend(Home, n, n) /\ Self' = RS!Extend(Self, n, rcvr)
    <2> HIDE DEF x
    <2> QED BY <1>1, <1>2, EnterShows
  <1>4. rcvr \in {Object, NoContext} \cup 1 .. MaxContexts
    <2>1. rcvr \in {Object, NoContext} \cup Ids
      BY DEF Receivers, Inv, TypeOK
    <2>2. Ids \subseteq 1 .. MaxContexts
      BY Facts, ReturnAssumption DEF Inv, TypeOK, Ids
    <2> QED BY <2>1, <2>2
  <1>5. stack = <<>> \/ Executing
    BY DEF InvokeMethod
  <1>6. RS!Call(n, rcvr)
    BY <1>3, <1>5 DEF RS!Call, RS!Enter, RS!Running, RS!Current, Executing, Home, Self, InvokeMethod
  <1>7. DOMAIN Home = Ids
    BY DEF Home
  <1> QED BY <1>3, <1>4, <1>6, <1>7 DEF RS!RSNext, Home

LEMMA EvaluateRefines ==
    ASSUME Inv, NEW b \in blocks, InvokeBlock(b)
    PROVE  RS!RSNext
  <1> DEFINE x == Context(FALSE, 1, <<b>> \o contexts[b].env, b)
  <1>1. PICK n : n = Len(contexts) + 1
    OBVIOUS
  <1>2. Entered(stack, x) /\ x.env # <<>> /\ x.env[Len(x.env)] = GetBlockAt(b)
    BY InvokeBlockEnters
  <1>3. b \in Ids
    BY DEF Inv, TypeOK
  <1>4. Home[b] = GetBlockAt(b) /\ Self[b] = contexts[GetBlockAt(b)].rcvr
    BY <1>3 DEF Home, Self
  <1>5. /\ Visible = stack /\ n \in 1 .. MaxContexts \ Ids
        /\ Visible' = Append(stack, [id |-> n, escaped |-> FALSE])
        /\ Home' = RS!Extend(Home, n, Home[b]) /\ Self' = RS!Extend(Self, n, Self[b])
    <2> HIDE DEF x
    <2> QED BY <1>1, <1>2, <1>4, EnterShows
  <1>6. RS!Evaluate(n, b)
    BY <1>5 DEF RS!Evaluate, RS!Enter, RS!Running, RS!Current, Executing, Home, Self, InvokeBlock
  <1>7. DOMAIN Home = Ids
    BY DEF Home
  <1> QED BY <1>5, <1>6, <1>7 DEF RS!RSNext, Home

LEMMA EscapeRefines ==
    ASSUME Inv, NEW catches \in BOOLEAN, SendEscapedBlock(catches)
    PROVE  RS!RSNext
  <1> DEFINE rcvr == contexts[GetBlockAt(Top)].rcvr
             x == Context(catches, 2, <<>>, rcvr)
             callers == [stack EXCEPT ![Len(stack)].escaped = EscapeEndsBlock]
  <1>1. PICK n : n = Len(contexts) + 1
    OBVIOUS
  <1>2. Entered(callers, x) /\ x.env = <<>> /\ x.rcvr = rcvr
    BY SendEscapedBlockEnters DEF Context
  <1>3. Executing /\ stack # <<>>
    BY DEF SendEscapedBlock, ReturnsNonLocally, Executing
  <1>4. Top \in Ids /\ GetBlockAt(Top) \in Ids
    BY <1>3, TopIsOnStack, HomeIsMethod DEF Inv
  <1>5. ~OnStack(GetBlockAt(Top))
    BY <1>4 DEF SendEscapedBlock, ReturnsNonLocally, Inv, MarkerTellsTheTruth
  <1>6. Home[Top] = GetBlockAt(Top) /\ Self[Top] = rcvr
    BY <1>4 DEF Home, Self
  <1>7. /\ Visible = stack /\ n \in 1 .. MaxContexts \ Ids
        /\ Visible' = Append(callers, [id |-> n, escaped |-> FALSE])
        /\ Home' = RS!Extend(Home, n, n) /\ Self' = RS!Extend(Self, n, rcvr)
    <2> HIDE DEF x, callers, rcvr
    <2> QED BY <1>1, <1>2, EnterShows
  <1>8. blocks' = blocks
    BY <1>2 DEF Entered
  <1>9. RS!Current.id = Top /\ RS!Running
    BY <1>3, <1>7 DEF RS!Current, RS!Running, Executing, Top
  <1>10. \A m \in DOMAIN Visible : Visible[m].id # Home[Top]
    BY <1>5, <1>6, <1>7 DEF OnStack
  <1>11. RS!Escape(n)
    <2> HIDE DEF rcvr
    <2> QED BY <1>6, <1>7, <1>8, <1>9, <1>10 DEF RS!Escape, RS!Enter, Home, Self
  <1>12. DOMAIN Home = Ids
    BY DEF Home
  <1> QED BY <1>7, <1>11, <1>12 DEF RS!RSNext, Home

LEMMA PushBlockRefines ==
    ASSUME Inv, PushBlock
    PROVE  RS!RSNext
  <1>1. Executing /\ UNCHANGED <<contexts, stack, target>> /\ blocks' = blocks \cup {Top}
    BY DEF PushBlock
  <1>2. Visible = stack /\ Visible' = Visible /\ Home' = Home /\ Self' = Self
    BY <1>1 DEF Visible, Home, Self, Executing, Ready, Raising, Ids, GetBlockAt
  <1>3. RS!CreateBlock
    BY <1>1, <1>2 DEF RS!CreateBlock, RS!Running, RS!Current, Executing, Top, Home, Self
  <1> QED BY <1>3 DEF RS!RSNext

LEMMA ReturnRefines ==
    ASSUME Inv, ReturnLocal
    PROVE  RS!RSNext
  <1>1. Left /\ target' = NoContext /\ Ready
    BY ReturnLocalLeaves
  <1>2. Visible = stack /\ Visible' = stack'
    BY <1>1 DEF Visible, Ready, Raising
  <1>3. Home' = Home /\ Self' = Self
    BY <1>1, LeaveShows
  <1>4. RS!Return
    BY <1>1, <1>2, <1>3 DEF RS!Return, RS!Drop, Left, Pop, Home, Self
  <1> QED BY <1>4 DEF RS!RSNext

(* Raising the exception is the abstract return.                             *)
LEMMA RaiseRefines ==
    ASSUME Inv, Raise
    PROVE  RS!RSNext
  <1>1. Executing /\ stack # <<>> /\ ~Raising
    BY DEF Raise, ReturnsNonLocally, Executing, Ready
  <1>2. UNCHANGED <<contexts, stack, blocks, failure>> /\ target' = GetBlockAt(Top)
    BY DEF Raise
  <1>3. Top \in Ids /\ GetBlockAt(Top) \in Ids
    BY <1>1, TopIsOnStack, HomeIsMethod DEF Inv
  <1>4. OnStack(GetBlockAt(Top))
    BY <1>3 DEF Raise, ReturnsNonLocally, Inv, MarkerTellsTheTruth
  <1>5. PICK n \in DOMAIN stack : stack[n].id = GetBlockAt(Top)
    BY <1>4 DEF OnStack
  <1>6. Visible = stack
    BY <1>1 DEF Visible
  <1>7. Visible' = SubSeq(stack, 1, n - 1)
    <2>1. Inv'
      BY RaiseStep
    <2>2. \A m \in DOMAIN stack : stack[m].id = target' => m = n
      <3>1. DOMAIN stack \subseteq Nat /\ \A m \in DOMAIN stack : stack[m].id \in Nat
        BY Facts DEF Inv, TypeOK
      <3>2. \A k, m \in DOMAIN stack : k < m => stack[k].id < stack[m].id
        BY DEF Inv, TypeOK
      <3> QED BY <3>1, <3>2, <1>2, <1>5
    <2>3. (CHOOSE m \in DOMAIN stack : stack[m].id = target') = n
      BY <2>2, <1>2, <1>5
    <2>4. Raising'
      BY <1>2, <1>3, Facts, ReturnAssumption DEF Raising, Inv
    <2> QED BY <2>3, <2>4, <1>2 DEF Visible
  <1>8. Home' = Home /\ Self' = Self
    BY <1>2 DEF Home, Self, Ids, GetBlockAt
  <1>9. Home[Top] = GetBlockAt(Top) /\ RS!Current.id = Top /\ RS!Running
    BY <1>1, <1>3, <1>6 DEF Home, RS!Current, RS!Running, Top, Executing
  <1>10. RS!ReturnFromHome
    BY <1>2, <1>5, <1>6, <1>7, <1>8, <1>9 DEF RS!ReturnFromHome, RS!Drop, Home, Self
  <1> QED BY <1>10 DEF RS!RSNext

(* Unwinding shows nothing.                                                  *)
LEMMA UnwindRefines ==
    ASSUME Inv, Unwind
    PROVE  UNCHANGED <<Visible, Home, Self, blocks>>
  <1>1. /\ Left /\ Raising
        /\ \/ target' = NoContext /\ target = Top
           \/ target' = target /\ target # Top
    BY UnwindLeaves
  <1>2. Home' = Home /\ Self' = Self /\ blocks' = blocks
    BY <1>1, LeaveShows DEF Left
  <1>3. PICK n \in DOMAIN stack : stack[n].id = target
    BY <1>1 DEF Inv, TargetOnStack, OnStack
  <1>4. Visible = SubSeq(stack, 1, n - 1)
    BY <1>1, <1>3, VisibleWhileRaising
  <1>5. /\ Len(stack) \in Nat \ {0} /\ DOMAIN stack = 1 .. Len(stack)
        /\ stack \in Seq(Frames)
        /\ \A m \in 1 .. Len(stack) - 1 : stack[m].id # Top
    BY <1>1, TopIsOnStack, Facts DEF Inv, Left, Frames
  <1>6. CASE target' = NoContext /\ target = Top
    <2>1. n = Len(stack)
      BY <1>3, <1>5, <1>6
    <2>2. Visible' = stack'
      BY <1>6 DEF Visible, Raising
    <2> QED BY <2>1, <2>2, <1>1, <1>2, <1>4 DEF Left, Pop
  <1>7. CASE target' = target /\ target # Top
    <2>1. n \in 1 .. Len(stack) - 1
      BY <1>3, <1>5, <1>7 DEF Top
    <2>2. /\ stack' \in Seq(Frames) /\ DOMAIN stack' = 1 .. Len(stack) - 1
          /\ \A m \in DOMAIN stack' : stack'[m] = stack[m]
      BY <1>1, StackShrinks
    <2>3. Inv'
      BY <1>1, <1>7, LeaveStep
    <2>4. \A m \in DOMAIN stack' : stack'[m].id = target' <=> m = n
      <3>1. \A m \in DOMAIN stack : stack[m].id \in Nat
        BY Facts DEF Inv, TypeOK
      <3>2. \A k, m \in DOMAIN stack : k < m => stack[k].id < stack[m].id
        BY DEF Inv, TypeOK
      <3>3. \A m \in DOMAIN stack : stack[m].id = target => m = n
        BY <3>1, <3>2, <1>3, <1>5
      <3> QED BY <3>3, <2>1, <2>2, <1>3, <1>5, <1>7
    <2>5. (CHOOSE m \in DOMAIN stack' : stack'[m].id = target') = n
      BY <2>1, <2>2, <2>4
    <2>6. Visible' = SubSeq(stack', 1, n - 1)
      <3>1. Raising'
        BY <1>1, <1>7 DEF Raising
      <3> QED BY <2>5, <3>1 DEF Visible
    <2>7. SubSeq(stack', 1, n - 1) = SubSeq(stack, 1, n - 1)
      BY <2>1, <2>2, <1>5
    <2> QED BY <2>6, <2>7, <1>2, <1>4
  <1> QED BY <1>1, <1>6, <1>7

-------------------------------------------------------------------------------
(* Theorems                                                                  *)

(* In every reachable state contexts and stack are well formed, the marker   *)
(* of a method that catches says whether it runs, and an exception under way *)
(* has its target on the stack.                                              *)
THEOREM Invariance == ASSUME NoFourArguments, NoBlockSelf PROVE Spec => []Inv
  <1>1. Init => Inv
    BY InitStep
  <1>2. Inv /\ [Next]_vars => Inv'
    BY NextStep
  <1> QED BY <1>1, <1>2, PTL DEF Spec

(* The type invariant, with the order of the stack and of environments.      *)
THEOREM TypeCorrectness == ASSUME NoFourArguments, NoBlockSelf PROVE Spec => []TypeOK
  <1>1. Inv => TypeOK
    BY DEF Inv
  <1> QED BY <1>1, Invariance, PTL

(* is_on_stack tells whether a non-local return can still reach its home.    *)
THEOREM Markers == ASSUME NoFourArguments, NoBlockSelf PROVE Spec => []MarkerTellsTheTruth
  <1>1. Inv => MarkerTellsTheTruth
    BY DEF Inv
  <1> QED BY <1>1, Invariance, PTL

(* No ReturnException reaches the caller of the interpreter.                 *)
THEOREM Caught == ASSUME NoFourArguments, NoBlockSelf PROVE Spec => []ReturnsAreCaught
  <1>1. Inv => ReturnsAreCaught
    BY DEF Inv, ReturnsAreCaught
  <1> QED BY <1>1, Invariance, PTL

(* No marker is cleared twice and the receiver of escapedBlock: is found.    *)
THEOREM NoAssertionFails == ASSUME NoFourArguments, NoBlockSelf PROVE Spec => []AssertionsHold
  <1>1. Inv => AssertionsHold
    BY DEF Inv, AssertionsHold
  <1> QED BY <1>1, Invariance, PTL
(* Markers and exceptions implement the return from the home: a return in a  *)
(* block ends its home and what the home called and nothing else, or sends   *)
(* escapedBlock: to the self of a home that is gone.                         *)
THEOREM Refinement ==
    ASSUME NoFourArguments, NoBlockSelf PROVE Spec => ReturnSemanticsSpec
  <1>1. Init => RS!RSInit
    <2> SUFFICES ASSUME Init PROVE RS!RSInit
      OBVIOUS
    <2>1. contexts = <<>> /\ stack = <<>> /\ blocks = {} /\ target = NoContext
      BY DEF Init
    <2>2. Ids = {}
      BY <2>1 DEF Ids
    <2> QED BY <2>1, <2>2 DEF RS!RSInit, Visible, Raising
  <1>2. Inv /\ [Next]_vars => [RS!RSNext]_(RS!rsVars)
    <2> SUFFICES ASSUME Inv, [Next]_vars PROVE [RS!RSNext]_(RS!rsVars)
      OBVIOUS
    <2>1. ASSUME NEW catches \in BOOLEAN, NEW arity \in Arities, NEW rcvr \in Receivers,
                 InvokeMethod(catches, arity, rcvr)
          PROVE  RS!RSNext
      BY <2>1, CallRefines
    <2>2. ASSUME NEW b \in blocks, InvokeBlock(b) PROVE RS!RSNext
      BY <2>2, EvaluateRefines
    <2>3. ASSUME NEW catches \in BOOLEAN, SendEscapedBlock(catches) PROVE RS!RSNext
      BY <2>3, EscapeRefines
    <2>4. CASE Unwind
      BY <2>4, UnwindRefines DEF RS!rsVars, Home, Self
    <2>5. CASE UNCHANGED vars
      BY <2>5 DEF vars, RS!rsVars, Visible, Raising, Ids, GetBlockAt
    <2> QED BY <2>1, <2>2, <2>3, <2>4, <2>5,
               PushBlockRefines, ReturnRefines, RaiseRefines DEF Next
  <1> QED BY <1>1, <1>2, Invariance, PTL DEF Spec, ReturnSemanticsSpec, RS!RSSpec
===============================================================================
