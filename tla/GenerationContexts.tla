------------------------ MODULE GenerationContexts ------------------------
(***************************************************************************)
(* What the compilers of both interpreters share: the context of each      *)
(* method and block being compiled (compiler/method_generation_context.py, *)
(* and what compiler/*/method_generation_context.py have in common), the   *)
(* variables (compiler/ast/variable.py) and the lexical scopes             *)
(* (compiler/lexical_scope.py).                                            *)
(*                                                                         *)
(* The state S that these operators pass on is what the objects of the     *)
(* compiler hold: "gencs", a context for each method and block (outer is 0 *)
(* for a method), "methods", the methods assembled so far, "scopes", their *)
(* lexical scopes, "vars", every variable, and "failed", whether the       *)
(* compiler raised an exception.                                           *)
(***************************************************************************)
EXTENDS Integers, Sequences, SequencesExt, FiniteSets, Frames

\* A context with its scope; its variables get the next numbers.  "more" is
\* what one of the compilers keeps in addition.
NewGenc(S, outer, class, args, locals, more) ==
  LET n == Len(S.vars)
      names == args \o locals
      new == [i \in DOMAIN names |->
                [name |-> names[i], isArg |-> i <= Len(args), out |-> FALSE,
                 access |-> 0, source |-> n + i]]
      ids == [i \in DOMAIN names |-> n + i]
      argIds == SubSeq(ids, 1, Len(args))
      localIds == SubSeq(ids, Len(args) + 1, Len(names))
      genc == [outer |-> outer, class |-> class, args |-> argIds,
               locals |-> localIds, scope |-> Len(S.scopes) + 1,
               throws |-> FALSE, catches |-> FALSE, accessesOuter |-> FALSE]
  IN [S EXCEPT
        !.vars = @ \o new,
        !.scopes = Append(@, [outer |-> IF outer = 0 THEN 0 ELSE S.gencs[outer].scope,
                              args |-> argIds, locals |-> localIds]),
        !.gencs = Append(@, genc @@ more)]

RECURSIVE MaxContextLevel(_, _), MarkSelfAccessed(_, _), FindVar(_, _, _, _),
          MarkOuterThrows(_, _), ScopeAt(_, _, _)

\* "get_max_context_level", "get_outer_self_context_level".
MaxContextLevel(S, g) ==
  IF S.gencs[g].outer = 0 THEN 0 ELSE 1 + MaxContextLevel(S, S.gencs[g].outer)

\* "mark_self_as_accessed_from_outer_context".
MarkSelfAccessed(S, g) ==
  IF g = 0 THEN S
  ELSE MarkSelfAccessed([S EXCEPT !.gencs[g].accessesOuter = TRUE],
                        S.gencs[g].outer)

\* "make_catch_non_local_return": every block up to the method throws, the
\* method catches.
MarkOuterThrows(S, g) ==
  IF S.gencs[g].outer = 0
  THEN [S EXCEPT !.gencs[g].catches = TRUE]
  ELSE MarkOuterThrows([S EXCEPT !.gencs[g].throws = TRUE], S.gencs[g].outer)

\* "find_var", "get_variable": "where" is "local", "argument" or "none"; idx
\* as in the list.  "users" are the contexts that turn out to use a variable
\* of an outer one.
FindVar(S, g, name, ctx) ==
  LET at(list) == {i \in DOMAIN list : S.vars[list[i]].name = name}
      found(where, list) ==
        LET i == CHOOSE i \in at(list) : TRUE
        IN [where |-> where, idx |-> i - 1, var |-> list[i], ctx |-> ctx,
            users |-> {}]
      G == S.gencs[g]
  IN IF at(G.locals) # {} THEN found("local", G.locals)
     ELSE IF at(G.args) # {} THEN found("argument", G.args)
     ELSE IF G.outer = 0
     THEN [where |-> "none", idx |-> 0, var |-> 0, ctx |-> ctx, users |-> {}]
     ELSE LET r == FindVar(S, G.outer, name, ctx + 1)
          IN IF r.where = "none" THEN r
             ELSE [r EXCEPT !.users = @ \cup {g}]

MarkAccessed(S, v, ctx) == [S EXCEPT !.vars[v].out = @ \/ ctx > 0]

WithUsers(S, users) ==
  FoldSet(LAMBDA u, acc : [acc EXCEPT !.gencs[u].accessesOuter = TRUE], S, users)

HasField(S, g, name) == name \in ToSet(S.gencs[g].class.fields)
FieldIdx(S, g, name) ==
  LET fs == S.gencs[g].class.fields IN (CHOOSE i \in DOMAIN fs : fs[i] = name) - 1

---------------------------------------------------------------------------
(* Frames of assembled methods: "prepare_frame" and "requires_context".    *)

RequiresContext(S, g) == S.gencs[g].throws \/ S.gencs[g].accessesOuter
OutFlags(S, list) == [i \in DOMAIN list |-> S.vars[list[i]].out]

FrameLayout(S, g) ==
  LET G == S.gencs[g]
      flags == OutFlags(S, Tail(G.args) \o G.locals)
      args == SubSeq(flags, 1, Len(G.args) - 1)
      locals == SubSeq(flags, Len(G.args), Len(flags))
      needsInner == RequiresContext(S, g) \/ G.catches \/ S.vars[G.args[1]].out
  IN [argInner |-> args, sizeFrame |-> SizeFrame(args, locals),
      sizeInner |-> SizeInner(args, locals, needsInner)]

\* What "prepare_frame" writes into the variables.
WithAccessIndexes(S, g) ==
  LET G == S.gencs[g]
      args == OutFlags(S, Tail(G.args))
      locals == OutFlags(S, G.locals)
      access(v) ==
        IF v = G.args[1] THEN RcvrIdx
        ELSE IF v \in ToSet(G.args)
        THEN ArgIndexes(args)[SelectInSeq(Tail(G.args), LAMBDA a : a = v)]
        ELSE LocalIndexes(args, locals)[SelectInSeq(G.locals, LAMBDA l : l = v)]
  IN [S EXCEPT !.vars = FoldSet(LAMBDA v, acc : [acc EXCEPT ![v].access = access(v)],
                                @, ToSet(G.args) \cup ToSet(G.locals))]

---------------------------------------------------------------------------
(* Scopes, and blocks that become part of the code around them.            *)

\* "inline_as_locals" and "merge_into_scope": copies of the block's arguments
\* (not of $blockSelf) and locals become locals of the context.
MergeScopeInto(S, scope, g) ==
  LET merged == Tail(S.scopes[scope].args) \o S.scopes[scope].locals
      first == Len(S.vars)
      copies == [i \in DOMAIN merged |->
                   [S.vars[merged[i]] EXCEPT !.isArg = FALSE, !.out = FALSE,
                                             !.access = 0]]
      ids == [i \in DOMAIN merged |-> first + i]
  IN [S EXCEPT !.vars = @ \o copies,
               !.gencs[g].locals = @ \o ids,
               !.scopes[S.gencs[g].scope].locals = @ \o ids]

\* "get_inlined_local": the copy is known by the position in the source.
InlinedLocal(S, g, v) ==
  SelectInSeq(S.gencs[g].locals, LAMBDA l : S.vars[l].source = S.vars[v].source)
InlinedVar(S, g, v) == S.gencs[g].locals[InlinedLocal(S, g, v)]
MarkInlined(S, g, v, ctx) == MarkAccessed(S, InlinedVar(S, g, v), ctx)

\* "get_argument" and "get_local" of LexicalScope, "drop_inlined_scope".
ScopeAt(S, scope, ctx) ==
  IF ctx = 0 THEN S.scopes[scope] ELSE ScopeAt(S, S.scopes[scope].outer, ctx - 1)
ScopeVar(S, scope, where, idx, ctx) ==
  IF where = "local" THEN ScopeAt(S, scope, ctx).locals[idx + 1]
  ELSE ScopeAt(S, scope, ctx).args[idx + 1]
DropInlinedScope(S, scope) ==
  [S EXCEPT !.scopes[scope].outer = S.scopes[@].outer]
============================================================================
