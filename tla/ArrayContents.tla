---------------------------- MODULE ArrayContents ----------------------------
(***************************************************************************)
(* What arrays promise to a SOM program, whatever their storage: a fixed   *)
(* number of elements, each the value put there last.  putAll: with a      *)
(* block puts the answers of the block, in order and all at once when the  *)
(* last one is known; until then the block sees, and may change, the       *)
(* array as it was.  A block that does not come back changes nothing.      *)
(*                                                                         *)
(* Every step says what the program asked for: an operation that is lost,  *)
(* or takes effect on another array, element or value, is no step here.    *)
(***************************************************************************)
EXTENDS Integers, Sequences

CONSTANTS Arrays, Values, Unallocated,
          KindOf,     \* value -> the kind of storage made for it
          Zero        \* kind -> what fresh storage of this kind holds

VARIABLES content,    \* array -> its elements, or Unallocated
          filling,    \* the putAll: being executed, the innermost one last
          operation   \* what the program asked for last

ACInit == /\ content = [a \in Arrays |-> Unallocated]
          /\ filling = <<>>
          /\ operation = <<"leave">>

Allocated == {a \in Arrays : content[a] # Unallocated}

(* The innermost putAll:.                                                    *)
Innermost == filling[Len(filling)]
Outer == SubSeq(filling, 1, Len(filling) - 1)

(* A new array, or a copy, shares nothing with the others.                   *)
New(values) ==
    /\ \/ operation' = <<"new", values>> /\ values \in Seq(Values)
       \/ \E b \in Allocated : operation' = <<"copy", b>> /\ values = content[b]
       \/ \E b \in Allocated, v \in Values :
             /\ operation' = <<"copyAndExtend", b, v>>
             /\ values = Append(content[b], v)
    /\ \E a \in Arrays \ Allocated : content' = [content EXCEPT ![a] = values]
    /\ UNCHANGED filling

(* Index 0 and below count from the last element.                            *)
Put(a, i, v) ==
    /\ operation' \in {<<"at:put:", a, i, v>>, <<"at:put:", a, i - Len(content[a]), v>>}
    /\ content' = [content EXCEPT ![a][i] = v]
    /\ UNCHANGED filling

PutAll(a, v) ==
    /\ operation' = <<"putAll:", a, v>>
    /\ content' = [content EXCEPT ![a] = [i \in 1 .. Len(content[a]) |-> v]]
    /\ UNCHANGED filling

BeginFill(a) ==
    /\ operation' = <<"fill", a>>
    /\ filling' = IF content[a] = <<>> THEN filling
                  ELSE Append(filling, [array |-> a, answers |-> <<>>, kept |-> <<>>])
    /\ UNCHANGED content

(* What is kept of an answer: the answer.  It may be lost if it is the first *)
(* that is not of the one kind, integers or doubles, of all before it: the   *)
(* known fault of putAll: (array.py 175, 201).                               *)
Kept(answers, v) ==
    {v} \cup {Zero[k] : k \in {k \in DOMAIN Zero :
                 /\ answers # <<>> /\ KindOf[v] # k
                 /\ \A i \in DOMAIN answers : KindOf[answers[i]] = k}}

Answer(v, w) ==
    LET a == Innermost.array
        kept == Append(Innermost.kept, w)
    IN /\ operation' = <<"answer", v>>
       /\ IF Len(kept) < Len(content[a])
          THEN /\ filling' = Append(Outer, [array |-> a, kept |-> kept,
                                            answers |-> Append(Innermost.answers, v)])
               /\ UNCHANGED content
          ELSE /\ content' = [content EXCEPT ![a] = kept]
               /\ filling' = Outer

(* An exception or a non-local return.                                       *)
Leave == /\ operation' = <<"leave">>
         /\ \E n \in 0 .. Len(filling) : filling' = SubSeq(filling, 1, n)
         /\ UNCHANGED content

ACNext == \/ /\ operation'[1] \in {"new", "copy", "copyAndExtend"}
             /\ \E a \in Arrays : New(content'[a])
          \/ /\ operation'[1] = "at:put:"
             /\ \E a \in Allocated, v \in Values : \E i \in 1 .. Len(content[a]) : Put(a, i, v)
          \/ operation'[1] = "putAll:" /\ \E a \in Allocated, v \in Values : PutAll(a, v)
          \/ operation'[1] = "fill" /\ \E a \in Allocated : BeginFill(a)
          \/ /\ operation'[1] = "answer" /\ filling # <<>>
             /\ \E v \in Values : \E w \in Kept(Innermost.answers, v) : Answer(v, w)
          \/ Leave

(* Elements change only as put or filled: safety only, a program may         *)
(* stop at any point.                                                        *)
ACSpec == ACInit /\ [][ACNext]_<<content, filling, operation>>
===============================================================================
