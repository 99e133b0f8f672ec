----------------------------- MODULE AstParser -----------------------------
(***************************************************************************)
(* The parser of the AST interpreter (compiler/ast/parser.py): it builds   *)
(* the tree of a method while it reads it.  "Compile" answers the methods  *)
(* of a whole program.                                                     *)
(***************************************************************************)
EXTENDS AstCompiler

CONSTANT KeywordSelectors

RECURSIVE Expression(_, _, _), NodesOf(_, _, _), BlockBody(_, _, _)

\* "_evaluation" and "_formula" forget a "super" before them.
Evaluation(S, g, e) == [Expression(S, g, e) EXCEPT !.superSend = FALSE]

\* The nodes of several expressions: <<S, node ids>>.
NodesOf(S, g, es) ==
  LET step(acc, e) == LET T == Evaluation(acc[1], g, e)
                      IN <<T, Append(acc[2], T.node)>>
  IN FoldLeft(step, <<S, <<>>>>, es)

\* "_primary" for a name.
Primary(S, g, name) ==
  IF name = "super" THEN [SelfRead(S, g) EXCEPT !.superSend = TRUE]
  ELSE VariableRead(S, g, name)

\* "_assignments": the last variable is written first.
Assignments(S, g, names, e) ==
  LET write(name, acc) == IF acc.failed THEN acc ELSE VariableWrite(acc, g, name)
  IN FoldRight(write, names, Evaluation(S, g, e))

\* "_unary_message" and "_binary_message" forget "super" before they read
\* their argument, "_keyword_message" leaves it to the first argument.
IsKeyword(selector) == selector \in KeywordSelectors
Message(S, g, rcvr, selector, args) ==
  LET T == Expression(S, g, rcvr)
      isSuper == T.superSend
      U == NodesOf(IF IsKeyword(selector) THEN T ELSE [T EXCEPT !.superSend = FALSE],
                   g, args)
      kids == <<T.node>> \o U[2]
  IN IF U[1].failed THEN U[1]
     ELSE IF isSuper
     THEN Add(U[1], "super", 0, <<S.gencs[g].class.name, selector>>, kids)
     ELSE IF IsInlined(U[1], selector, T.node, U[2])
     THEN InlineMessage(U[1], g, selector, T.node, U[2])
     ELSE Add(U[1], "send", 0, selector, kids)

\* "_primary" for a block.
NestedBlock(S, g, args, locals, body) ==
  LET b == Len(S.gencs) + 1
      T == Assemble(BlockBody(NewGenc(S, g, S.gencs[g].class,
                                      <<"$blockSelf">> \o args, locals, <<>>),
                              b, body), b)
  IN Add(T, IF RequiresContext(T, b) THEN "block_ctx" ELSE "block", 0,
         Len(T.methods), <<>>)

\* An exception ends the compilation.
Expression(S, g, e) ==
  CASE S.failed -> S
    [] e[1] = "lit" -> Add(S, "lit", 0, e[2], <<>>)
    [] e[1] = "var" -> Primary(S, g, e[2])
    [] e[1] = "assign" -> Assignments(S, g, e[2], e[3])
    [] e[1] = "send" -> Message(S, g, e[2], e[3], e[4])
    [] e[1] = "super" -> Message(S, g, <<"var", "super">>, e[2], e[3])
    [] e[1] = "block" -> NestedBlock(S, g, e[2], e[3], e[4])

\* "_result".
Result(S, g, e) ==
  LET T == Evaluation(S, g, e)
  IN IF S.gencs[g].outer # 0 /\ ~T.failed
     THEN MarkOuterThrows(Add(T, "return", MaxContextLevel(T, g), 0, <<T.node>>), g)
     ELSE T

\* "_block_body" up to the first return; a method without one answers self.
\* "_create_sequence_node".
BlockBody(S, g, body) ==
  LET statements == SelectSeq(body, LAMBDA s : s # Dot)
      returns == {i \in DOMAIN statements : statements[i][1] = "return"}
      first == CHOOSE i \in returns : \A j \in returns : i <= j
      read == NodesOf(S, g, IF returns = {} THEN statements
                            ELSE SubSeq(statements, 1, first - 1))
      last == IF returns # {} THEN Result(read[1], g, statements[first][2])
              ELSE SelfRead(read[1], g)
      all == IF returns = {} /\ S.gencs[g].outer # 0 THEN read
             ELSE <<last, Append(read[2], last.node)>>
  IN IF read[1].failed THEN read[1]
     ELSE IF all[2] = <<>> THEN Add(all[1], "lit", 0, Nil, <<>>)
     ELSE IF Len(all[2]) = 1 THEN [all[1] EXCEPT !.node = all[2][1]]
     ELSE Add(all[1], "seq", 0, 0, all[2])

---------------------------------------------------------------------------
(* A program, as in BytecodeParser.                                        *)

EmptyCompiler == [gencs |-> <<>>, methods |-> <<>>, scopes |-> <<>>, vars |-> <<>>,
                  failed |-> FALSE, nodes |-> <<>>, node |-> 0, superSend |-> FALSE]

CompileMethod(S, m) ==
  LET g == Len(S.gencs) + 1
      T == NewGenc(S, 0, m.class, <<"self">> \o m.source[1], m.source[2], <<>>)
  IN Assemble(BlockBody(T, g, m.source[3]), g)

Compile(methods) ==
  LET step(acc, m) ==
        LET T == CompileMethod(acc.state, m)
        IN IF T.failed THEN [acc EXCEPT !.state = T]
           ELSE [state |-> T, entry |-> Append(acc.entry, Len(T.methods))]
  IN FoldLeft(step, [state |-> EmptyCompiler, entry |-> <<>>], methods)
============================================================================
