------------------------- MODULE MCTwoTierMachine -------------------------
EXTENDS TierEquivalence, VerifiedScopes

MCJumpBase == 20
MCMaxInt == 511
Source == INSTANCE SamplePrograms WITH JumpBase <- MCJumpBase, MaxInt <- MCMaxInt
MCPrograms == LET images == Source!Images IN images
MCExpected == LET results == Source!AstResults IN results
MCShifted == LET images == Source!RejectedImages IN images
MCShiftedExpected == LET results == Source!RejectedResults IN results
MCArity == Source!SelectorArity
MCSettings == {[tiers |-> "tier1", threshold |-> 0], [tiers |-> "tier2", threshold |-> 0],
               [tiers |-> "hybrid", threshold |-> 0], [tiers |-> "hybrid", threshold |-> 1],
               [tiers |-> "hybrid", threshold |-> 3]}

\* The heights of the stack, from the first instruction on.
RECURSIVE HeightsFrom(_, _, _)
HeightsFrom(M, h, pcs) ==
  LET edges == UNION {FlowsTo(M, pc, h[pc]) : pc \in pcs}
      new == {e \in edges : e[1] \notin DOMAIN h}
  IN IF new = {} THEN h
     ELSE HeightsFrom(M, h @@ [pc \in {e[1] : e \in new} |->
                                 (CHOOSE e \in new : e[1] = pc)[2]],
                      {e[1] : e \in new})

\* Functions are put together with <<>>, so that they are computed only once.
HeightsOf(programs) ==
  <<>> @@ [p \in DOMAIN programs |->
    <<>> @@ [m \in DOMAIN programs[p].methods |->
      LET M == programs[p].methods[m]
      IN IF M.kind = "bytecodes" THEN HeightsFrom(M, 0 :> 0, {0}) ELSE <<>>]]
SampleHeights == HeightsOf(Programs)
MCHeights == SampleHeights

\* Where the object is on the stack: anywhere, but for what an instruction that
\* leads there leaves in its place.  Argument 0 is the receiver.
SelvesAfter(M, h, selves, pc) ==
  (selves[pc] \cap 1..(h[pc] - Takes(M.code[pc + 1], ArgsAt(M, pc))))
    \cup (IF M.code[pc + 1] = "push_argument" /\ M.code[pc + 2] = 0
          THEN {h[pc] + 1} ELSE {})
RECURSIVE SelvesFrom(_, _, _)
SelvesFrom(M, h, selves) ==
  LET edges == UNION {{<<pc, e[1]>> : e \in FlowsTo(M, pc, h[pc])} : pc \in DOMAIN h}
      next == <<>> @@ [pc \in DOMAIN h |->
                IF pc = 0 THEN {}
                ELSE {i \in selves[pc] :
                        \A e \in edges : e[2] = pc => i \in SelvesAfter(M, h, selves, e[1])}]
  IN IF next = selves THEN selves ELSE SelvesFrom(M, h, next)
ScopeOf(M, h, m, block, around) ==
  [block |-> block, contexts |-> <<m>> \o around,
   selves |-> IF M.kind = "bytecodes"
              THEN SelvesFrom(M, h, <<>> @@ [pc \in DOMAIN h |-> 1..h[pc]]) ELSE <<>>]

\* The methods that messages find, then the blocks that are pushed in them.
BlocksIn(M, pushing) ==
  IF M.kind # "bytecodes" THEN {}
  ELSE {M.literals[M.code[pc + 2] + 1][2] : pc \in {q \in M.starts : M.code[q + 1] \in pushing}}
RECURSIVE ScopesFrom(_, _, _, _)
ScopesFrom(Ms, heights, known, methods) ==
  LET Inside(m) ==
        [b \in BlocksIn(Ms[m], PushBlock) |->
           ScopeOf(Ms[b], heights[b], b, TRUE,
                   IF b \in BlocksIn(Ms[m], {"push_block"}) THEN known[m].contexts ELSE <<>>)]
      more == FoldSet(LAMBDA m, scopes : scopes @@ Inside(m), <<>>, methods)
  IN IF methods = {} THEN known ELSE ScopesFrom(Ms, heights, known @@ more, DOMAIN more)
Found(prog) ==
  {m \in DOMAIN prog.methods :
     \E class \in Range(prog.classes) : <<"method", m>> \in Range(class.methods)}
ScopesOf(programs, heights) ==
  <<>> @@ [p \in DOMAIN programs |->
    LET Ms == programs[p].methods
    IN ScopesFrom(Ms, heights[p],
                  <<>> @@ [m \in Found(programs[p]) |->
                             ScopeOf(Ms[m], heights[p][m], m, FALSE, <<>>)],
                  Found(programs[p]))]
SampleScopes == ScopesOf(Programs, SampleHeights)
MCScopes == SampleScopes

\* What the theorems about the values of the machine assume of a program.
ASSUME ScopesAreVerified == \A p \in DOMAIN Programs : ScopesFit(p)

\* The tiers enter every call of the samples alike, but for the super send of
\* four arguments: one sample has it in a method without a loop, so that it is
\* met in one tier only; in the rejected program both tiers meet it.
AgreeingPrograms(programs) == {p \in DOMAIN programs : SameEntryPoints(programs[p])}
ASSUME EntryPointsAgree == AgreeingPrograms(MCPrograms) = DOMAIN MCPrograms \ {"supers"}
ASSUME EntryPointsDiffer == AgreeingPrograms(MCShifted) = {}
============================================================================
