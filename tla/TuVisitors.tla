----------------------------- MODULE TuVisitors -----------------------------
(***************************************************************************)
(* What the AST visitors of a bake hand to the indexes while they walk one *)
(* translation unit: the indexer and the edge visitor                      *)
(* (src/callgraph/CallGraphBuilder.cpp) and the control-flow visitor       *)
(* (src/callgraph/ControlFlowContextVisitor.cpp).  They are three passes   *)
(* over the same tree and read nothing from each other, so they are walked *)
(* here in step; the source program is chosen as the walk goes on.         *)
(*                                                                         *)
(* A node's location is its number in the walk.  path holds the nodes that *)
(* are open, outermost first; the other variables are the visitors' own    *)
(* stacks and what the last visited node made them register.               *)
(***************************************************************************)
EXTENDS Naturals, SequencesExt, Listing

CONSTANTS
  Calls,      \* call expressions a program may hold; the fields are below
  LocalTypes, \* types of locals, as far as classifyRaiiType tells them apart
  MaxNodes,   \* bound: AST nodes walked
  MaxDepth    \* bound: open nodes

(* A call: its form, its callee, whether it is in a system header, whether   *)
(* both ends lie in collapsed paths, whether the callee is named like an     *)
(* assertion (and then with or without an argument), a callable argument,    *)
(* whether the callee spawns, and the channel operation it is registered as  *)
(* ("unresolved" when the receiver is no field or variable).                 *)
Forms == {"direct", "virtual", "operator", "construct", "implicit", "indirect", "maker"}
ASSUME CallsAssumption ==
  \A c \in Calls :
    /\ c.form \in Forms /\ c.arg \in {"none", "lambda", "function", "variable"}
    /\ {c.system, c.collapsed, c.spawner} \subseteq BOOLEAN
    /\ c.assertion \in {"no", "bare", "checked"}
    /\ c.channel \in {"none", "produce", "consume", "unresolved"}
    /\ c.assertion # "no" => c.form = "direct"
    /\ c.collapsed => c.form # "indirect"

VARIABLES
  path, nodes, expect,                 \* the walk: open nodes, count, a lambda that must follow
  funcStack, holder, registered, edges,\* indexer and edge visitor
  cfFuncStack, scopeStack, tryScopeStack, guardStack, assertionGuards, insideCatchBlock,
  context, channelSite,                \* control-flow visitor
  call, declared, asserted, shaken     \* the call just visited; every RAII local and every noted
                                       \* assertion, with its block; open handlers in which another
                                       \* handler has been left

edgeVars == <<funcStack, holder, registered, edges>>
cfVars   == <<cfFuncStack, scopeStack, tryScopeStack, guardStack, assertionGuards,
              insideCatchBlock>>
results  == <<edges, context, channelSite, call>>
vars     == <<path, nodes, expect, edgeVars, cfVars, context, channelSite, call, declared, asserted, shaken>>

Nothing == <<>>

Init ==
  /\ path = <<>> /\ nodes = 0 /\ expect = FALSE
  /\ funcStack = <<>> /\ holder = Nothing /\ registered = {} /\ edges = {}
  /\ cfFuncStack = <<>> /\ scopeStack = <<>> /\ tryScopeStack = <<>> /\ guardStack = <<>>
  /\ assertionGuards = <<>> /\ insideCatchBlock = FALSE
  /\ context = Nothing /\ channelSite = Nothing /\ call = Nothing
  /\ declared = <<>> /\ asserted = <<>> /\ shaken = {}

(* The results of a visit are gone once the index has them.                  *)
Silent == edges' = {} /\ context' = Nothing /\ channelSite' = Nothing /\ call' = Nothing

Here      == nodes + 1
Inside(k) == path # <<>> /\ Last(path).kind \in k
CanOpen   == nodes < MaxNodes /\ Len(path) < MaxDepth /\ ~expect
Frame(kind, more) == [kind |-> kind, at |-> Here, more |-> more]
InBody    == Inside({"block", "handler", "then", "else"})

(* The control-flow visitor does not enter the condition of an if.           *)
Seen == \A i \in DOMAIN path : path[i].kind # "cond"
Push(s, x) == IF Seen THEN Append(s, x) ELSE s
Pop(s)     == IF Seen THEN Front(s) ELSE s
-----------------------------------------------------------------------------
(* getCurrentFunction: a lambda is named after its position and the nearest  *)
(* enclosing function that is not one.                                       *)
NonLambdaAt(stack) ==
  LET named == {i \in DOMAIN stack : ~stack[i].lambda}
  IN IF named = {} THEN 0 ELSE stack[Max(named)].at

LambdaIdent(at, enclosing) == [kind |-> "lambda", at |-> at, enclosing |-> enclosing]
FunctionIdent(at) == [kind |-> "function", at |-> at]

CurrentFunction(stack) ==
  IF stack = <<>> THEN Nothing
  ELSE IF Last(stack).lambda
       THEN LambdaIdent(Last(stack).at, NonLambdaAt(Front(stack)))
       ELSE FunctionIdent(Last(stack).at)
-----------------------------------------------------------------------------
(* Functions, methods, constructors and destructors; a conversion operator   *)
(* is traversed by a method no visitor overrides, and pushes nothing.        *)
EnterFunction(kind) ==
  /\ CanOpen /\ (path = <<>> \/ Inside({"block"}))
  /\ path' = path \o <<Frame(kind, 0), Frame("block", 0)>> /\ nodes' = Here
  /\ funcStack' = IF kind = "function" THEN Append(funcStack, [at |-> Here, lambda |-> FALSE])
                  ELSE funcStack
  /\ cfFuncStack' = IF kind = "function" THEN Push(cfFuncStack, [at |-> Here, lambda |-> FALSE])
                    ELSE cfFuncStack
  /\ scopeStack' = Push(scopeStack, <<>>)
  /\ Silent
  /\ UNCHANGED <<expect, holder, registered, tryScopeStack, guardStack, assertionGuards,
                 insideCatchBlock, declared, asserted, shaken>>

(* Faulty variant: what was entered last stays on its stack.                 *)
Kept(stack) == stack
LeftFunction(stack) == Pop(stack)

LeaveFunction ==
  /\ Inside({"function", "conversion"})
  /\ path' = Front(path)
  /\ funcStack' = IF Inside({"function"}) THEN Front(funcStack) ELSE funcStack
  /\ cfFuncStack' = IF Inside({"function"}) THEN LeftFunction(cfFuncStack) ELSE cfFuncStack
  /\ Silent
  /\ UNCHANGED <<nodes, expect, holder, registered, scopeStack, tryScopeStack, guardStack,
                 assertionGuards, insideCatchBlock, declared, asserted, shaken>>

(* A lambda: the indexer registers its node and, like the edge visitor,      *)
(* takes its call operator for the current function while in its body; the   *)
(* control-flow visitor only walks the body.                                 *)
EnterLambda ==
  /\ nodes < MaxNodes /\ (expect \/ (Len(path) < MaxDepth /\ Inside({"block"})))
  /\ path' = path \o <<Frame("lambda", 0), Frame("block", 0)>> /\ nodes' = Here
  /\ expect' = FALSE
  /\ funcStack' = Append(funcStack, [at |-> Here, lambda |-> TRUE])
  /\ registered' = registered \cup {LambdaIdent(Here, NonLambdaAt(funcStack))}
  /\ scopeStack' = Push(scopeStack, <<>>)
  /\ edges' = edges /\ context' = Nothing /\ channelSite' = Nothing /\ call' = Nothing
  /\ UNCHANGED <<holder, cfFuncStack, tryScopeStack, guardStack, assertionGuards,
                 insideCatchBlock, declared, asserted, shaken>>

LeaveLambda ==
  /\ Inside({"lambda"})
  /\ path' = Front(path) /\ funcStack' = Front(funcStack)
  /\ Silent
  /\ UNCHANGED <<nodes, expect, holder, registered, cfVars, declared, asserted, shaken>>
-----------------------------------------------------------------------------
(* TraverseCompoundStmt                                                      *)
EnterBlock ==
  /\ CanOpen /\ InBody
  /\ path' = Append(path, Frame("block", 0)) /\ nodes' = Here
  /\ scopeStack' = Push(scopeStack, <<>>)
  /\ Silent
  /\ UNCHANGED <<expect, funcStack, holder, registered, cfFuncStack, tryScopeStack, guardStack,
                 assertionGuards, insideCatchBlock, declared, asserted, shaken>>

LeaveBlock ==
  /\ Inside({"block"}) /\ ~expect
  /\ path' = Front(path) /\ scopeStack' = Pop(scopeStack)
  /\ Silent
  /\ UNCHANGED <<nodes, expect, funcStack, holder, registered, cfFuncStack, tryScopeStack,
                 guardStack, assertionGuards, insideCatchBlock, declared, asserted, shaken>>

(* TraverseCXXTryStmt: the scope is pushed, the block walked, then each      *)
(* handler's block with the flag set; the scope is popped after the last.    *)
EnterTry(handlers) ==
  /\ CanOpen /\ InBody
  /\ path' = path \o <<Frame("try", handlers), Frame("block", 0)>> /\ nodes' = Here
  /\ tryScopeStack' = Push(tryScopeStack, [at |-> Here, depth |-> Len(tryScopeStack)])
  /\ scopeStack' = Push(scopeStack, <<>>)
  /\ Silent
  /\ UNCHANGED <<expect, funcStack, holder, registered, cfFuncStack, guardStack,
                 assertionGuards, insideCatchBlock, declared, asserted, shaken>>

EnterHandler ==
  /\ Inside({"try"}) /\ Last(path).more > 0
  /\ path' = Append([path EXCEPT ![Len(path)].more = @ - 1],
                    [kind |-> "handler", at |-> Last(path).at, more |-> Last(path).more])
  /\ insideCatchBlock' = IF Seen THEN TRUE ELSE insideCatchBlock
  /\ shaken' = shaken \ {Len(path) + 1}
  /\ scopeStack' = Push(scopeStack, <<>>)
  /\ Silent
  /\ UNCHANGED <<nodes, expect, funcStack, holder, registered, cfFuncStack, tryScopeStack,
                 guardStack, assertionGuards, declared, asserted>>

(* Faulty variant: the flag stays set.                                       *)
StillInHandler == insideCatchBlock

(* The flag after a handler: FALSE, and not what it was before the handler.  *)
AfterHandler == FALSE

LeaveHandler ==
  /\ Inside({"handler"}) /\ ~expect
  /\ path' = Front(path)
  /\ insideCatchBlock' = IF Seen THEN AfterHandler ELSE insideCatchBlock
  /\ shaken' = IF Seen THEN DOMAIN Front(path) ELSE shaken
  /\ scopeStack' = Pop(scopeStack)
  /\ Silent
  /\ UNCHANGED <<nodes, expect, funcStack, holder, registered, cfFuncStack, tryScopeStack,
                 guardStack, assertionGuards, declared, asserted>>

(* The scope of a try goes after its last handler.                           *)
LeaveTry ==
  /\ Inside({"try"}) /\ Last(path).more = 0
  /\ path' = Front(path) /\ tryScopeStack' = Pop(tryScopeStack)
  /\ Silent
  /\ UNCHANGED <<nodes, expect, funcStack, holder, registered, cfFuncStack, scopeStack,
                 guardStack, assertionGuards, insideCatchBlock, declared, asserted, shaken>>

(* TraverseIfStmt: condition (for the edge visitor only), then, else.        *)
EnterIf(branches) ==
  /\ CanOpen /\ InBody
  /\ path' = Append(path, Frame("cond", branches)) /\ nodes' = Here
  /\ Silent
  /\ UNCHANGED <<expect, funcStack, holder, registered, cfVars, declared, asserted, shaken>>

EnterThen ==
  /\ Inside({"cond"}) /\ ~expect
  /\ path' = [path EXCEPT ![Len(path)].kind = "then"]
  /\ guardStack' = IF \A i \in DOMAIN Front(path) : path[i].kind # "cond"
                   THEN Append(guardStack, [at |-> Last(path).at, true |-> TRUE]) ELSE guardStack
  /\ Silent
  /\ UNCHANGED <<nodes, expect, funcStack, holder, registered, cfFuncStack, scopeStack,
                 tryScopeStack, assertionGuards, insideCatchBlock, declared, asserted, shaken>>

LeaveBranch ==
  /\ Inside({"then", "else"}) /\ ~expect
  /\ LET f == Last(path) IN
       IF f.kind = "then" /\ f.more > 1
       THEN /\ path' = [path EXCEPT ![Len(path)].kind = "else"]
            /\ guardStack' = Push(Pop(guardStack), [at |-> f.at, true |-> FALSE])
       ELSE path' = Front(path) /\ guardStack' = Pop(guardStack)
  /\ Silent
  /\ UNCHANGED <<nodes, expect, funcStack, holder, registered, cfFuncStack, scopeStack,
                 tryScopeStack, assertionGuards, insideCatchBlock, declared, asserted, shaken>>
-----------------------------------------------------------------------------
(* VisitVarDecl of the control-flow visitor: a local of a class with a       *)
(* destructor of its own joins the innermost open block.  Loops push nothing:*)
(* a local of a loop's header joins the block around the loop, where it is   *)
(* live until that block ends, as ControlFlowIndex.h:137-139 defines it.     *)
AddToInnermost(stack, x) == [stack EXCEPT ![Len(stack)] = Append(@, x)]

ClassifyRaiiType(type) ==
  CASE type \in {"builtin lock", "listed lock", "capability"} -> "Lock"
    [] type = "smart pointer" -> "SmartPtr"
    [] type = "destructor"    -> "Other"
    [] OTHER                  -> "none"

DeclareRaii(type) ==
  /\ ClassifyRaiiType(type) # "none"
  /\ CanOpen /\ Inside({"block", "handler"}) /\ scopeStack # <<>>
  /\ nodes' = Here
  /\ scopeStack' = IF Seen THEN AddToInnermost(scopeStack, [at |-> Here, kind |-> ClassifyRaiiType(type)]) ELSE scopeStack
  /\ declared' = Append(declared, [at |-> Here, type |-> type, depth |-> Len(path),
                                     block |-> Last(path)])
  /\ Silent
  /\ UNCHANGED <<path, expect, funcStack, holder, registered, cfFuncStack, tryScopeStack,
                 guardStack, assertionGuards, insideCatchBlock, asserted, shaken>>

(* VisitVarDecl of the edge visitor: a local that holds a lambda or the      *)
(* result of a call is remembered for when it is passed on.                  *)
DeclareCallable(source) ==
  /\ CanOpen /\ Inside({"block"}) /\ funcStack # <<>>
  /\ source = "lambda" => Here < MaxNodes
  /\ nodes' = Here
  /\ holder' = IF source = "lambda" THEN LambdaIdent(Here + 1, NonLambdaAt(funcStack))
               ELSE [kind |-> "returned", at |-> Here]
  /\ expect' = (source = "lambda")
  /\ Silent
  /\ UNCHANGED <<path, funcStack, registered, cfVars, declared, asserted, shaken>>
-----------------------------------------------------------------------------
Edge(caller, callee, kind) == [caller |-> caller, callee |-> callee, kind |-> kind, site |-> Here]
Callee(c) == [kind |-> "callee", form |-> c.form]
Indirect  == [kind |-> "indirect"]
Argument  == [kind |-> "argument"]

(* enclosingNonLambdaName, by which the edge visitor names a lambda it meets *)
(* as an argument, before the walk is in the lambda.                         *)
(* Faulty variant: InnermostAt, the nearest function of any kind.            *)
InnermostAt(stack) == IF stack = <<>> THEN 0 ELSE Last(stack).at
EnclosingNonLambdaName(stack) == NonLambdaAt(stack)

(* processCallableArgs: lambdas and functions handed to the callee.          *)
ArgEdges(c, caller) ==
  LET kind == IF c.spawner THEN "ThreadEntry"
              ELSE IF c.arg = "function" THEN "FunctionPointer" ELSE "LambdaCall"
  IN CASE c.arg = "lambda" -> {Edge(caller, LambdaIdent(Here + 1, EnclosingNonLambdaName(funcStack)), kind)}
       [] c.arg = "function" -> {Edge(caller, Argument, kind)}
       [] c.arg = "variable" /\ holder # Nothing ->
            {Edge(caller, holder, IF holder.kind = "returned" THEN "FunctionPointerReturn" ELSE kind)}
       [] OTHER -> {}

(* Whether the visit of the call looks at its arguments.                     *)
ArgsProcessed(c) ==
  ~c.system /\ ~c.collapsed /\ c.form # "implicit" /\ (c.form = "construct" => c.spawner)

(* VisitDeclRefExpr, when the walk goes on into the call: a function that is *)
(* named there counts as address-taken unless the call has handled it.       *)
RefEdges(c, caller) ==
  IF caller = Nothing \/ c.system \/ c.arg # "function" \/ ArgsProcessed(c) THEN {}
  ELSE {Edge(caller, Argument, "AddressTaken")}

(* The edge visitor's VisitCallExpr and VisitCXXConstructExpr.  Arguments of *)
(* a constructor count only when it spawns; make_unique and make_shared also *)
(* construct, and what they construct gets a node under a name of its own.   *)
Made == [kind |-> "made"]
CallEdges(c, caller) ==
  IF caller = Nothing \/ c.system \/ c.collapsed \/ c.form = "implicit" THEN {}
  ELSE (IF ArgsProcessed(c) THEN ArgEdges(c, caller) ELSE {})
       \cup (CASE c.form = "indirect"  -> {}
               [] c.form = "virtual"   -> {Edge(caller, Callee(c), "VirtualDispatch")}
               [] c.form = "operator"  -> {Edge(caller, Callee(c), "OperatorCall")}
               [] c.form = "construct" -> {Edge(caller, Callee(c), "ConstructorCall")}
               [] c.form = "maker"     -> {Edge(caller, Made, "ConstructorCall"),
                                           Edge(caller, Callee(c), "DirectCall")}
               [] OTHER                -> {Edge(caller, Callee(c), "DirectCall")})

(* Nodes the edge visitor registers itself: constructors, and by             *)
(* identForCallee callees the indexer does not walk (instantiations).        *)
AuxNodes(c, found) ==
  {e.callee : e \in {e \in found : e.kind = "ConstructorCall" \/ c.form = "maker"}}

(* snapshotGuards: enclosing branches innermost first, then assertions.      *)
SnapshotGuards ==
  [branches |-> Reverse(guardStack), assertions |-> assertionGuards]

(* buildContext                                                              *)
BuildContext(caller, callee) ==
  [caller |-> caller, callee |-> callee, site |-> Here, inCatch |-> insideCatchBlock,
   scopes |-> Reverse(tryScopeStack), guards |-> SnapshotGuards,
   locals |-> FlattenSeq(scopeStack)]

(* maybeRecordChannelSite                                                    *)
ChannelSiteOf(c, caller) ==
  IF c.channel \in {"produce", "consume"}
  THEN [op |-> c.channel, fn |-> caller, site |-> Here, guards |-> SnapshotGuards]
  ELSE Nothing

(* The control-flow visitor's VisitCallExpr and VisitCXXConstructExpr, and   *)
(* maybeRecordChannelSite on the way.  An assertion is noted as a guard if   *)
(* it has an argument, and has no context of its own.                        *)
VisitCall(c) ==
  /\ CanOpen /\ path # <<>> /\ (InBody \/ Inside({"cond"}))
  /\ c.arg = "lambda" => Here < MaxNodes
  /\ nodes' = Here /\ expect' = (c.arg = "lambda")
  /\ edges' = CallEdges(c, CurrentFunction(funcStack)) \cup RefEdges(c, CurrentFunction(funcStack))
  /\ registered' = registered \cup AuxNodes(c, edges')
  /\ LET caller  == CurrentFunction(cfFuncStack)
         visited == Seen /\ caller # Nothing /\ ~c.system
         usable  == visited /\ ~c.collapsed /\ c.form # "implicit"
     IN /\ channelSite' = IF visited THEN ChannelSiteOf(c, caller) ELSE Nothing
        /\ assertionGuards' = IF usable /\ c.assertion = "checked"
                             THEN Append(assertionGuards, Here) ELSE assertionGuards
        /\ asserted' = IF usable /\ c.assertion = "checked"
                       THEN Append(asserted, [at |-> Here, depth |-> Len(path), block |-> Last(path)])
                       ELSE asserted
        /\ context' = IF usable /\ c.assertion = "no"
                      THEN BuildContext(caller, IF c.form = "indirect" THEN Indirect ELSE Callee(c))
                      ELSE Nothing
  /\ call' = c
  /\ UNCHANGED <<path, funcStack, holder, cfFuncStack, scopeStack, tryScopeStack, guardStack,
                 insideCatchBlock, declared, shaken>>

Next ==
  \/ \E kind \in {"function", "conversion"} : EnterFunction(kind)
  \/ LeaveFunction \/ EnterLambda \/ LeaveLambda \/ EnterBlock \/ LeaveBlock
  \/ \E n \in 1..2 : EnterTry(n) \/ EnterIf(n)
  \/ EnterHandler \/ LeaveHandler \/ LeaveTry \/ EnterThen \/ LeaveBranch
  \/ \E t \in LocalTypes : DeclareRaii(t)
  \/ \E s \in {"lambda", "call"} : DeclareCallable(s)
  \/ \E c \in Calls : VisitCall(c)

Spec == Init /\ [][Next]_vars
-----------------------------------------------------------------------------
OpenAt(kinds) == {i \in DOMAIN path : path[i].kind \in kinds}
InLambda == OpenAt({"lambda"}) # {}
Callables == {"function", "conversion", "lambda"}

(* No function or lambda that is open lies in a frame of one of these kinds. *)
NoneWithin(kinds) == \A i \in OpenAt(kinds), j \in OpenAt(Callables) : j < i

(* The try statements and the branches around the current node, innermost    *)
(* first.                                                                    *)
EnclosingTries ==
  LET open == Listed(path, OpenAt({"try"}))
  IN Reverse([k \in DOMAIN open |-> [at |-> open[k].at, depth |-> k - 1]])
EnclosingBranches ==
  LET open == Listed(path, OpenAt({"then", "else"}))
  IN Reverse([k \in DOMAIN open |-> [at |-> open[k].at, true |-> open[k].kind = "then"]])

(* Locals and assertions whose block is still open.                          *)
StillOpen(d) == Len(path) >= d.depth /\ path[d.depth] = d.block
OpenLocals ==
  LET live == Listed(declared, {i \in DOMAIN declared : StillOpen(declared[i])})
  IN [k \in DOMAIN live |-> [at |-> live[k].at, kind |-> ClassifyRaiiType(live[k].type)]]
AssertedInScope == {asserted[i].at : i \in {i \in DOMAIN asserted : StillOpen(asserted[i])}}

(* Where the tries stand, without their depths.                              *)
Places(scopes) == [k \in DOMAIN scopes |-> scopes[k].at]

\* A recorded context shows exactly the try statements, the branches and the
\* RAII locals that enclose the call, in the documented orders: nothing of a
\* finished statement or an earlier function stays on a stack, nothing open is
\* missing.  Handlers count as inside their try.  A try's depth is the number
\* of tries of its function around it, as long as no function lies in a try.
\* Every assertion passed in a block that is still open is among the guards.
StacksAreLexical ==
  context # Nothing =>
    /\ Places(context.scopes) = Places(EnclosingTries)
    /\ NoneWithin({"try"}) => context.scopes = EnclosingTries
    /\ context.guards.branches = EnclosingBranches
    /\ context.locals = OpenLocals
    /\ AssertedInScope \subseteq Range(context.guards.assertions)

\* The flag that a context carries for handlers, which is a variable and no
\* stack: it is set exactly if the innermost handler around the call has not
\* had another handler inside it that was left before the call.  Above all, no
\* call outside every handler has it.
CatchFlagFollows ==
  context # Nothing =>
    (context.inCatch <=>
       \E i \in OpenAt({"handler"}) \ shaken : \A j \in OpenAt({"handler"}) : j <= i)

\* What a recorded context says of its call comes from what encloses the call,
\* whatever was entered and left before it: its stacks show what is open, and
\* its catch flag what the innermost handler has met.
ContextIsLexical == StacksAreLexical /\ CatchFlagFollows

\* An edge and a context of the same call agree on the caller and the callee,
\* so that the two indexes can be joined at the call site: outside lambdas
\* and if conditions, each call with a callee that is not an assertion has
\* both or neither.
EdgesJoinContexts ==
  (call # Nothing /\ call.form # "indirect" /\ call.assertion = "no" /\ ~InLambda /\ Seen) =>
    LET own == {e \in edges : e.callee = Callee(call)}
    IN /\ (own = {}) = (context = Nothing)
       /\ \A e \in own : /\ e.caller = context.caller /\ e.callee = context.callee
                         /\ e.site = context.site

\* "Both phases must compute the identical name so Phase 2 edges land on the
\* Phase 1 node" (CallGraphBuilder.cpp:141-142): an edge to a lambda leads to
\* the node that is registered for it when the lambda is walked, however deep
\* lambdas and functions nest.  A function named as an argument is reached by
\* exactly one edge, whichever of the visits finds it.
CallablesFollowed ==
  /\ \A e \in edges : e.callee.kind = "lambda" => expect \/ e.callee \in registered
  /\ (call # Nothing /\ call.arg = "function" /\ ~call.system /\ funcStack # <<>>) =>
       \E e \in edges : \A o \in edges : (o.callee = Argument) = (o = e)
=============================================================================
