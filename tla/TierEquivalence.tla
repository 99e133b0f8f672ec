-------------------------- MODULE TierEquivalence --------------------------
(***************************************************************************)
(* Two tiers are as good as one: what the interpreters do together is what *)
(* the second tier does alone.  The abstract machine never shifts; the     *)
(* tier of an activation, the counts and the traversal stack, which only   *)
(* decide when to shift, are erased, and the super sends that the two      *)
(* tiers rewrite differently are the same instruction.                     *)
(***************************************************************************)
EXTENDS TwoTierMachine

OneTier == [tiers |-> "tier2", threshold |-> 0]
InOneTier(a) == [a EXCEPT !.tier = 2, !.shielded = FALSE]
AsTier2Writes(m, i) ==
  IF i - 1 \in Method(m).starts /\ code[m][i] = "q_super_send_n"
  THEN QuickSuperSendTier2(Arity[Method(m).literals[code[m][i + 1] + 1][2]])
  ELSE code[m][i]

\* No call is entered in one tier and not in the other: the second tier has no
\* entry points for four arguments of trivial methods, and the first does not
\* know the super send of four arguments that the second writes.
SelectorAt(M, pc) == M.literals[M.code[pc + 2] + 1][2]
SameEntryPoints(prog) ==
  /\ \A class \in DOMAIN prog.classes :
       \A selector \in DOMAIN prog.classes[class].methods :
         Arity[selector] = 4 /\ prog.classes[class].methods[selector][1] = "method" =>
           prog.methods[prog.classes[class].methods[selector][2]].kind = "bytecodes"
  /\ \A m \in DOMAIN prog.methods : prog.methods[m].kind = "bytecodes" =>
       \A pc \in prog.methods[m].starts :
         prog.methods[m].code[pc + 1] = "super_send" =>
           Arity[SelectorAt(prog.methods[m], pc)] # 4

SecondTier == INSTANCE TwoTierMachine WITH
  Settings <- {OneTier},
  setting <- OneTier,
  counts <- [m \in DOMAIN counts |-> [i \in DOMAIN counts[m] |-> 0]],
  acts <- [k \in DOMAIN acts |-> InOneTier(acts[k])],
  code <- [m \in DOMAIN code |-> [i \in DOMAIN code[m] |-> AsTier2Writes(m, i)]]

\* Every step of the two tiers is a step of the second alone, or moves an
\* activation, which nothing else can see (tier_shifting.py).
ShiftsAreInvisible == SecondTier!Init /\ [][SecondTier!Next]_SecondTier!vars
============================================================================
