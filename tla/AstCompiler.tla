---------------------------- MODULE AstCompiler ----------------------------
(***************************************************************************)
(* How the compiler of the AST interpreter turns a method into a tree      *)
(* (compiler/ast/parser.py, compiler/ast/method_generation_context.py),    *)
(* and how the trees of literal blocks become part of the tree around them *)
(* (handle_inlining and handle_outer_inlined of the nodes, method_ast.py). *)
(* The source form is the one of BytecodeCompiler.                         *)
(*                                                                         *)
(* The state S of the compiler (see GenerationContexts) has in addition    *)
(* all nodes so far, the node that was made last, and whether the parser   *)
(* is between "super" and its message.  A node is [op, ctx, x, kids]: its  *)
(* kind, context level, what it is about, and its children.                *)
(***************************************************************************)
EXTENDS GenerationContexts, Values

CONSTANT KnownGlobals  \* the globals that exist while the method is compiled

Dot == <<"dot">>
Failing(S) == [S EXCEPT !.failed = TRUE]
Add(S, op, ctx, x, kids) ==
  [S EXCEPT !.nodes = Append(@, [op |-> op, ctx |-> ctx, x |-> x, kids |-> kids]),
            !.node = Len(S.nodes) + 1]

---------------------------------------------------------------------------
(* Variables, fields and globals.                                          *)

\* "get_variable" with "get_read_node" or "get_write_node".
Access(S, r, op, kids) ==
  Add(MarkAccessed(WithUsers(S, r.users), r.var, r.ctx), op, r.ctx, r.var, kids)
SelfRead(S, g) == Access(S, FindVar(S, g, "self", 0), "self", <<>>)

\* "get_object_field_read".
FieldReadNode(S, g, idx) ==
  LET T == SelfRead(S, g) IN Add(T, "field_read", 0, idx, <<T.node>>)

\* "create_global_node".
GlobalNode(S, g, name) ==
  CASE name \in {"true", "false"} -> Add(S, "lit", 0, Bool(name = "true"), <<>>)
    [] name = "nil" -> Add(S, "lit", 0, Nil, <<>>)
    [] name \in KnownGlobals \ {"true", "false", "nil"} ->
         Add(S, "known_global", 0, name, <<>>)
    [] OTHER -> Add(MarkSelfAccessed(S, g), "global", MaxContextLevel(S, g), name, <<>>)

\* "_variable_read".
VariableRead(S, g, name) ==
  LET r == FindVar(S, g, name, 0)
  IN IF name = "self" THEN SelfRead(S, g)
     ELSE IF r.where # "none" THEN Access(S, r, "read", <<>>)
     ELSE IF HasField(S, g, name) THEN FieldReadNode(S, g, FieldIdx(S, g, name))
     ELSE GlobalNode(S, g, name)

\* "_variable_write" of the node made last.
VariableWrite(S, g, name) ==
  LET r == FindVar(S, g, name, 0)
      T == SelfRead(S, g)
  IN IF r.where # "none" THEN Access(S, r, "write", <<S.node>>)
     ELSE IF HasField(S, g, name)
     THEN Add(T, "field_write", 0, FieldIdx(T, g, name), <<T.node, S.node>>)
     ELSE Failing(S)

---------------------------------------------------------------------------
(* Blocks that become part of the tree around them.                        *)

RECURSIVE AdaptAfterInlining(_, _, _), AdaptAfterOuterInlined(_, _, _, _),
          AdaptMethod(_, _, _, _)

\* "handle_inlining" of node n, which now belongs to context g.
Closer(S, n) == [S EXCEPT !.nodes[n].ctx = @ - 1]
Redirected(S, n, g, ctx) ==
  [MarkInlined(S, g, S.nodes[n].x, ctx) EXCEPT
     !.nodes[n].x = InlinedVar(S, g, S.nodes[n].x)]

HandleInliningOfVariable(S, n, g) ==
  IF S.nodes[n].ctx > 0 THEN Closer(S, n)
  ELSE IF S.nodes[n].op = "write" /\ S.vars[S.nodes[n].x].isArg THEN Failing(S)
  ELSE Redirected(S, n, g, 0)

HandleInlining(S, n, g) ==
  LET N == S.nodes[n]
  IN CASE N.op \in {"read", "write"} -> HandleInliningOfVariable(S, n, g)
       [] N.op \in {"self", "global", "return"} /\ N.ctx > 0 -> Closer(S, n)
       [] N.op = "block_ctx" -> AdaptMethod(S, N.x, 1, g)
       [] OTHER -> S

\* "handle_outer_inlined": the block "removed" levels out from node n was
\* inlined into g.  Reads of globals do not follow.
HandleOuterInlinedOfVariable(S, n, removed, g) ==
  LET N == S.nodes[n]
  IN IF N.ctx > removed THEN Closer(S, n)
     ELSE IF N.ctx < removed THEN S
     ELSE IF S.vars[N.x].isArg THEN Failing(S)
     ELSE Redirected(S, n, g, removed)

HandleOuterInlined(S, n, removed, g) ==
  LET N == S.nodes[n]
  IN CASE N.op \in {"read", "write"} -> HandleOuterInlinedOfVariable(S, n, removed, g)
       [] N.op = "self" /\ N.ctx > 0 -> IF N.ctx > removed THEN Closer(S, n) ELSE Failing(S)
       [] N.op = "return" -> Closer(S, n)
       [] N.op = "block_ctx" -> AdaptMethod(S, N.x, removed + 1, g)
       [] OTHER -> S

\* Children first.
AdaptAfterInlining(S, n, g) ==
  LET step(acc, kid) == AdaptAfterInlining(acc, kid, g)
      T == FoldLeft(step, S, S.nodes[n].kids)
  IN IF T.failed THEN T ELSE HandleInlining(T, n, g)
AdaptAfterOuterInlined(S, n, removed, g) ==
  LET step(acc, kid) == AdaptAfterOuterInlined(acc, kid, removed, g)
      T == FoldLeft(step, S, S.nodes[n].kids)
  IN IF T.failed THEN T ELSE HandleOuterInlined(T, n, removed, g)

\* "adapt_after_outer_inlined" of AstMethod; trivial methods have none.
AdaptMethod(S, m, removed, g) ==
  IF S.methods[m].kind # "ast" THEN Failing(S)
  ELSE LET T == AdaptAfterOuterInlined(S, S.methods[m].root, removed, g)
       IN IF removed = 1 /\ ~T.failed THEN DropInlinedScope(T, S.methods[m].scope) ELSE T

\* "inline" of AstMethod and of the trivial methods.  A read of a global that
\* was known no longer has the name.
Inline(S, m, g) ==
  LET M == S.methods[m]
  IN CASE S.failed -> S
       [] M.kind = "ast" ->
            [AdaptAfterInlining(MergeScopeInto(S, M.scope, g), M.root, g)
               EXCEPT !.node = M.root]
       [] M.kind = "literal_return" -> Add(S, "lit", 0, M.value, <<>>)
       [] M.kind = "global_read" -> GlobalNode(S, g, M.name)
       [] M.kind = "known_global_read" -> Failing(S)
       [] M.kind = "field_read" -> FieldReadNode(S, g, M.idx)

---------------------------------------------------------------------------
(* Assembling a method whose body is the node made last.                   *)

\* "create_trivial_method" of each node; kind "none" for None.
SetterFor(S, g, n) ==
  LET N == S.nodes[n]
      value == S.nodes[N.kids[2]]
  IN IF S.nodes[N.kids[1]].ctx = 0 /\ value.op = "read" /\ S.vars[value.x].isArg
     THEN [kind |-> "field_write", idx |-> N.x,
           arg |-> SelectInSeq(S.gencs[g].args, LAMBDA a : a = value.x) - 1]
     ELSE [kind |-> "none"]

TrivialMethod(S, g) ==
  LET N == S.nodes[S.node]
      last == S.nodes[N.kids[2]]
  IN CASE N.op = "lit" -> [kind |-> "literal_return", value |-> N.x]
       [] N.op = "known_global" -> [kind |-> "known_global_read", name |-> N.x]
       [] N.op = "global" -> [kind |-> "global_read", name |-> N.x, ctx |-> N.ctx]
       [] N.op = "field_read" ->
            [kind |-> "field_read", idx |-> N.x, ctx |-> S.nodes[N.kids[1]].ctx]
       [] N.op = "field_write" -> SetterFor(S, g, S.node)
       [] N.op = "seq" /\ Len(N.kids) = 2 ->
            IF last.op = "self" /\ last.ctx = 0 /\ S.nodes[N.kids[1]].op = "field_write"
            THEN SetterFor(S, g, N.kids[1]) ELSE [kind |-> "none"]
       [] OTHER -> [kind |-> "none"]

\* "assemble".
Assemble(S, g) ==
  LET T == IF S.gencs[g].catches THEN Add(S, "catch", 0, 0, <<S.node>>) ELSE S
      trivial == TrivialMethod(T, g)
      method == [kind |-> "ast", root |-> T.node, scope |-> T.gencs[g].scope,
                 class |-> T.gencs[g].class.name] @@ FrameLayout(T, g)
  IN IF S.failed THEN S
     ELSE IF trivial.kind # "none" THEN [T EXCEPT !.methods = Append(@, trivial)]
     ELSE [WithAccessIndexes(T, g) EXCEPT !.methods = Append(@, method)]

---------------------------------------------------------------------------
(* Control messages: node ids of the receiver and of the arguments.        *)

IsBlock(S, n) == S.nodes[n].op \in {"block", "block_ctx"}

\* "_try_inlining_*": a node of the expressions, then the inlined blocks.
InlineBlocks(S, g, op, x, exprs, blocks) ==
  LET step(acc, b) == LET T == Inline(acc[1], S.nodes[b].x, g)
                      IN <<T, Append(acc[2], T.node)>>
      all == FoldLeft(step, <<S, <<>>>>, blocks)
  IN Add(all[1], op, 0, x, exprs \o all[2])

\* "_try_inlining_to_do": the block must have an argument to become the loop
\* variable.
InlineToDo(S, g, from, limit, block) ==
  LET m == S.nodes[block].x
      T == Inline(S, m, g)
      i == S.scopes[S.methods[m].scope].args[2]
      idx == InlinedVar(T, g, i)
      U == Add(MarkInlined(T, g, i, 0), "write", 0, idx, <<>>)
  IN IF T.failed \/ S.methods[m].kind # "ast" THEN Failing(S)
     ELSE IF Len(S.scopes[S.methods[m].scope].args) < 2 THEN Failing(S)
     ELSE Add(U, "to_do", 0, 0, <<from, limit, T.node, U.node>>)

IsInlined(S, selector, rcvr, args) ==
  CASE selector \in {"ifTrue:", "ifFalse:", "or:", "and:", "||", "&&"} -> IsBlock(S, args[1])
    [] selector \in {"ifTrue:ifFalse:", "ifFalse:ifTrue:"} ->
         IsBlock(S, args[1]) /\ IsBlock(S, args[2])
    [] selector \in {"whileTrue:", "whileFalse:"} -> IsBlock(S, rcvr) /\ IsBlock(S, args[1])
    [] selector = "to:do:" -> IsBlock(S, args[2])
    [] OTHER -> FALSE
InlineMessage(S, g, selector, rcvr, args) ==
  CASE selector \in {"ifTrue:", "ifFalse:"} ->
         InlineBlocks(S, g, "if", selector = "ifTrue:", <<rcvr>>, args)
    [] selector \in {"ifTrue:ifFalse:", "ifFalse:ifTrue:"} ->
         InlineBlocks(S, g, "if_else", selector = "ifTrue:ifFalse:", <<rcvr>>, args)
    [] selector \in {"whileTrue:", "whileFalse:"} ->
         InlineBlocks(S, g, "while", selector = "whileTrue:", <<>>, <<rcvr>> \o args)
    [] selector \in {"or:", "||"} -> InlineBlocks(S, g, "or", 0, <<rcvr>>, args)
    [] selector \in {"and:", "&&"} -> InlineBlocks(S, g, "and", 0, <<rcvr>>, args)
    [] selector = "to:do:" -> InlineToDo(S, g, rcvr, args[1], args[2])
============================================================================
