------------------------------ MODULE FieldStore ------------------------------
(***************************************************************************)
(* What a SOM program is promised about the fields of its objects: every   *)
(* object has one variable per field, a field that was never written holds *)
(* nil, and the write a program asks for changes that field of that object *)
(* to that value and nothing else.  The interpreter may stop on an         *)
(* internal error in a write; a stop changes no field.                     *)
(* ObjectLayout implements this specification with shared, evolving        *)
(* layouts and untyped primitive slots.                                    *)
(***************************************************************************)
CONSTANTS Objects, Fields, Values, nilObject

VARIABLES store,   \* object -> field -> the value the program last wrote
          halted,  \* the interpreter stopped on an internal error
          request  \* the write the program asked for last

fsVars == <<store, halted, request>>

NoRequest == <<>>
Request(o, f, v) == [object |-> o, field |-> f, value |-> v]

FSInit == /\ store = [o \in Objects |-> [f \in Fields |-> nilObject]]
          /\ halted = FALSE
          /\ request = NoRequest

(* The write that was asked for and no other; asking for it again changes    *)
(* nothing.                                                                  *)
Write(o, f, v) == /\ ~halted
                  /\ request' = Request(o, f, v)
                  /\ store' = [store EXCEPT ![o][f] = v]
                  /\ UNCHANGED halted

Halt(o, f, v) == /\ ~halted
                 /\ request' = Request(o, f, v)
                 /\ halted' = TRUE
                 /\ UNCHANGED store

FSNext == \E o \in Objects, f \in Fields, v \in Values \cup {nilObject} :
             Write(o, f, v) \/ Halt(o, f, v)

FSSpec == FSInit /\ [][FSNext]_fsVars
===============================================================================
