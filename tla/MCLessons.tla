------------------------------ MODULE MCLessons ------------------------------
(***************************************************************************)
(* The run over the concurrent parts of utilities/ and backends/ and the   *)
(* structures of dsa/, which share no state: as in MCServices, an initial  *)
(* state picks the part that moves and the others keep one initial state.  *)
(***************************************************************************)
EXTENDS LessonSteps, Pipeline, Consumer, WebSockets, Transfers,
        LocalLimiters, SearchTrees, SortedSlices, OnePassScans, ChoiceProblems, GraphWalks, Heaps, IntervalSets, ChatStream, WorkerPools,
        DataLoader

CONSTANT Parts    \* the parts a run lets move

VARIABLE part     \* the one that moves

structVars == <<rbVars, bstVars, hashVars, queueVars, input, searchVars, graphVars, intervals>>

StructuresInit ==
    /\ part \in Parts
    /\ part # "hashmap" => hashOf = CHOOSE h \in HashFunctions : TRUE
    /\ part # "answer"  => low = 0 /\ high = 0 /\ boundary = 0
    /\ part # "graph"   => directed = TRUE
    /\ RBInit /\ BstInit /\ HashInit /\ RingInit /\ InputInit /\ SearchInit /\ GraphInit /\ IntervalsInit

StructuresNext ==
    \/ /\ part = "redblack" /\ RBNext
       /\ UNCHANGED <<bstVars, hashVars, queueVars, input, searchVars, graphVars, intervals>>
    \/ /\ part = "bst" /\ BstNext
       /\ UNCHANGED <<rbVars, hashVars, queueVars, input, searchVars, graphVars, intervals>>
    \/ /\ part = "hashmap" /\ HashNext
       /\ UNCHANGED <<rbVars, bstVars, queueVars, input, searchVars, graphVars, intervals>>
    \/ /\ part = "queue" /\ RingNext
       /\ UNCHANGED <<rbVars, bstVars, hashVars, input, searchVars, graphVars, intervals>>
    \/ /\ part = "input" /\ InputNext
       /\ UNCHANGED <<rbVars, bstVars, hashVars, queueVars, searchVars, graphVars, intervals>>
    \/ /\ part = "answer" /\ SearchNext
       /\ UNCHANGED <<rbVars, bstVars, hashVars, queueVars, input, graphVars, intervals>>
    \/ /\ part = "graph" /\ GraphNext
       /\ UNCHANGED <<rbVars, bstVars, hashVars, queueVars, input, searchVars, intervals>>
    \/ /\ part = "intervals" /\ IntervalsNext
       /\ UNCHANGED <<rbVars, bstVars, hashVars, queueVars, input, searchVars, graphVars>>

taskVars == <<poolVars, closeVars, chatVars, vars>>
lessonVars == <<pipeVars, consVars, hubVars, fanVars, moneyVars, hookVars, aliveVars, limVars, taskVars>>
allVars == <<part, lessonVars, structVars>>

LessonsInit ==
    /\ StructuresInit
    /\ part # "pipeline"  => job = Numbers
    /\ part # "consumer"  => mode = "after"
    /\ part # "hub"       => policy = "Disconnect" /\ stuck = {} /\ sendBuffer = 1
    /\ part # "fanout"    => policyOf = "All" /\ limit = 0
    /\ part # "transfers" => style = [t \in MoneyMoves |-> "update"]
    /\ part # "limiters"  => algo = "fixed"
    /\ part # "pool"      => failFast = TRUE
    /\ part # "closing"   => usage = "collect"
    /\ part # "chat"      => chatMode = "Concurrent" /\ lockstep = TRUE
    /\ PipeInit /\ ConsInit /\ HubInit /\ FanInit /\ MoneyInit /\ HookInit /\ AliveInit /\ LimInit
    /\ PoolInit /\ CloseInit /\ ChatInit /\ Init

(* What is interchangeable comes in one order: the keys of the loader, of   *)
(* which at most one is primed, the deliveries, and the broadcasters.      *)
Asked  == {k \in Keys : future[k] # "absent" \/ k \in {key[c] : c \in Callers}}
Primed == {k \in Keys : future[k] = "done" /\ ~\E c \in Callers : missed[c] /\ key[c] = k}
KeysInOrder == (\A k \in Asked : 1..k \subseteq Asked) /\ Cardinality(Primed) <= 1
DeliveriesInOrder == \A d \in Deliveries \ {1} : stage[d] # "unsent" => stage[d - 1] # "unsent"
Turns == <<"b1", "b2", "b3">>
BroadcastsInOrder == \A i \in 2..3 : phase[Turns[i]] # "waiting" => phase[Turns[i - 1]] # "waiting"

TasksNext ==
    \/ part = "pool" /\ PoolNext /\ UNCHANGED <<closeVars, chatVars, vars>>
    \/ part = "closing" /\ CloseNext /\ UNCHANGED <<poolVars, chatVars, vars>>
    \/ part = "chat" /\ ChatNext /\ UNCHANGED <<poolVars, closeVars, vars>>
    \/ part = "loader" /\ Next /\ KeysInOrder' /\ UNCHANGED <<poolVars, closeVars, chatVars>>

LessonsNext ==
    /\ UNCHANGED part
    /\ \/ StructuresNext /\ UNCHANGED lessonVars
       \/ /\ TasksNext
          /\ UNCHANGED <<pipeVars, consVars, hubVars, fanVars, moneyVars, hookVars, aliveVars, limVars, structVars>>
       \/ /\ part = "pipeline" /\ PipeNext
          /\ UNCHANGED <<consVars, hubVars, fanVars, moneyVars, hookVars, aliveVars, limVars, taskVars, structVars>>
       \/ /\ part = "consumer" /\ ConsNext
          /\ UNCHANGED <<pipeVars, hubVars, fanVars, moneyVars, hookVars, aliveVars, limVars, taskVars, structVars>>
       \/ /\ part = "hub" /\ HubNext /\ BroadcastsInOrder'
          /\ UNCHANGED <<pipeVars, consVars, fanVars, moneyVars, hookVars, aliveVars, limVars, taskVars, structVars>>
       \/ /\ part = "fanout" /\ FanNext
          /\ UNCHANGED <<pipeVars, consVars, hubVars, moneyVars, hookVars, aliveVars, limVars, taskVars, structVars>>
       \/ /\ part = "transfers" /\ MoneyNext
          /\ UNCHANGED <<pipeVars, consVars, hubVars, fanVars, hookVars, aliveVars, limVars, taskVars, structVars>>
       \/ /\ part = "webhooks" /\ HookNext /\ DeliveriesInOrder'
          /\ UNCHANGED <<pipeVars, consVars, hubVars, fanVars, moneyVars, aliveVars, limVars, taskVars, structVars>>
       \/ /\ part = "alive" /\ AliveNext
          /\ UNCHANGED <<pipeVars, consVars, hubVars, fanVars, moneyVars, hookVars, limVars, taskVars, structVars>>
       \/ /\ part = "limiters" /\ LimNext
          /\ UNCHANGED <<pipeVars, consVars, hubVars, fanVars, moneyVars, hookVars, aliveVars, taskVars, structVars>>

(* The fairness of each part; a part that can move in its initial state is *)
(* owed nothing while another one moves.                                   *)
LessonsFairness ==
    /\ WF_pipeVars(part = "pipeline" /\ PipeStep)
    /\ WF_consVars(part = "consumer" /\ ConsStep)
    /\ WF_hubVars(part = "hub" /\ SendStep) /\ WF_hubVars(part = "hub" /\ LoopStep)
    /\ WF_fanVars(part = "fanout" /\ FanStep)
    /\ WF_moneyVars(part = "transfers" /\ MoneyStep)
    /\ WF_searchVars(part = "answer" /\ SearchNext) /\ WF_queueVars(part = "queue" /\ MatchStep)
    /\ WF_poolVars(part = "pool" /\ PoolStep) /\ WF_closeVars(part = "closing" /\ CloseStep)
    /\ WF_chatVars(part = "chat" /\ ChatStep) /\ LoaderFairness

LessonsSpec == LessonsInit /\ [][LessonsNext]_allVars /\ LessonsFairness

(* Walks over graphs: their invariants are evaluated where a graph grows.  *)
(* The lists, the counts and the degrees agree (GraphWalks).           *)
GraphListsAgree == part = "graph" => ListsAgree
(* The walks of one graph reach the same nodes in their orders (GraphWalks). *)
GraphWalksAgree == part = "graph" => WalksAgree
(* An order of the nodes, or a cycle (GraphWalks).                         *)
GraphOrderOrCycle == part = "graph" => OrderOrCycle
(* The distances are those of the best walks (GraphWalks).                 *)
GraphPathsAreShortest == part = "graph" => PathsAreShortest
(* The sets of the forest are the components (GraphWalks).                 *)
GraphSetsAreComponents == part = "graph" => SetsAreComponents
(* No spanning forest weighs less (GraphWalks).                            *)
GraphTreeIsLeast == part = "graph" => TreeIsLeast

(* The walks, orders, paths and sets over a graph that calls have built are *)
(* those of its edges, whatever was replaced and removed on the way.        *)
GraphsAreSolved ==
    /\ GraphListsAgree /\ GraphWalksAgree /\ GraphOrderOrCycle /\ GraphPathsAreShortest
    /\ GraphSetsAreComponents /\ GraphTreeIsLeast

(* The patterns (stack, window, two pointers, tables, searches) give on     *)
(* every input what trying every position, subset or order would give.      *)
PatternsAgree == part = "input" =>
    /\ NearestByStack /\ BarsAreMeasured /\ RemovalIsLeast
    /\ SizedWindowsAgree /\ RunsAreFound /\ PatternIsCovered
    /\ SumsAreFound /\ EndsCloseIn /\ RewritesKeepTheRest
    /\ SubsequencesAreLongest /\ DistancesAreLeast /\ ChoicesAreBest
    /\ WordsAreFound /\ ChoicesAreMadeOnce /\ QueensAreSafe

(* Whatever is kept in order stays in order: the two search trees are the   *)
(* map that the calls describe, in their shape; the sorts order every       *)
(* input, the stable ones stably; the searches find what is there, at every *)
(* boundary and in every rotation; the heap keeps its order through every   *)
(* call, and what is kept with it is the best of the input; and the         *)
(* interval lists cover what their sets cover.                             *)
OrdersHold == part \in {"redblack", "bst", "input", "intervals"} =>
    /\ RBIsTheMap /\ RBBalanced /\ RBSearchesAgree /\ BstIsTheMap /\ BstSearchesAgree
    /\ StableSorts /\ UnstableSorts /\ BoundsCount /\ RotatedIsFound /\ PeakIsFound
    /\ HeapsGiveTheOrder /\ TheBestAreKept /\ MedianIsInTheMiddle
    /\ MergeCoversTheSame /\ OverlapsAreCounted /\ SetAlgebraHolds

(* Nothing waits for ever: goroutines of a pipeline or a fan-out, broad-    *)
(* casts and connections, consumers, transfers, pools, calls, searches, the *)
(* callers of a loader and MatchAll.                                       *)
(* The part that moves is chosen once, and broadcasts that are over stay    *)
(* over, so that one formula says it of them all.                           *)
EveryPartEnds ==
    []<>(/\ part = "pipeline"  => PipelineOver
         /\ part = "consumer"  => LogConsumed
         /\ part = "hub"       => BroadcastsOver /\ EndedConnsLeft
         /\ part = "fanout"    => FanOutOver
         /\ part = "transfers" => TransfersOver
         /\ part = "answer"    => SearchOver
         /\ part = "pool"      => PoolOver
         /\ part = "closing"   => CloseOver
         /\ part = "chat"      => ChatOver
         /\ part = "loader"    => LoaderOver
         /\ part = "queue"     => failures = None)

-----------------------------------------------------------------------------
(* Constants of the run. *)
MCLogOf == [p \in {"p1", "p2"} |-> IF p = "p1" THEN <<"a", "b">> ELSE <<"a", "a">>]
MCHash == {[k \in HashKeys |-> 2], [k \in HashKeys |-> 3 * k], [k \in HashKeys |-> k \div 2]}
MCRank == [p \in Players |-> p % 2]
MCWeightsOf == [p \in V \X V |-> CASE p[1] = p[2] /\ p[1] < Nodes -> {}
                                   [] p = <<1, 2>> -> {0} [] p = <<1, 3>> -> {1, 3} [] OTHER -> {1}]
MCDictionary == {<<0>>, <<0, 1>>, <<1, 2, 0>>, <<2>>}
MCMoneyMoves == {<<1, 2, 2>>, <<2, 1, 1>>, <<2, 1, 3>>}
=============================================================================
