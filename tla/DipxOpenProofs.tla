--------------------------- MODULE DipxOpenProofs ---------------------------
(***************************************************************************)
(* What dipx.Open accepts has a closed and acyclic reference graph,        *)
(* whatever the bundle: the three-colour search of detectCyclesAll is      *)
(* right for every graph, started over at every file and with fresh colours*)
(* each time.  The second part follows the stages of Open in order: what   *)
(* was read is what the manifest says, within the caps, and every refusal  *)
(* has the cause it names.                                                 *)
(***************************************************************************)
EXTENDS DipxOpen, WellFoundedInduction, TLAPS

-----------------------------------------------------------------------------
(* Graphs: G[p] is the set of the nodes that the edges of p lead to        *)

ClosedIn(G, S) == \A p \in S : G[p] \subseteq S

AcyclicIn(G, S) == \A T \in SUBSET S : T # {} => \E p \in T : G[p] \cap T = {}

\* p lies in a part of the graph that no edge leaves and that has no cycle.
GoodIn(G, p) == \E B \in SUBSET Paths : p \in B /\ ClosedIn(G, B) /\ AcyclicIn(G, B)

(* A node all of whose edges lead into such a part belongs to it.          *)
LEMMA AddNode ==
    ASSUME NEW G, NEW S, NEW p, p \notin S, G[p] \subseteq S, ClosedIn(G, S), AcyclicIn(G, S)
    PROVE  ClosedIn(G, S \cup {p}) /\ AcyclicIn(G, S \cup {p})
<1>1. ClosedIn(G, S \cup {p})
  BY DEF ClosedIn
<1>2. ASSUME NEW T \in SUBSET (S \cup {p}), T # {} PROVE \E q \in T : G[q] \cap T = {}
  <2>1. CASE T \cap S = {}
    <3>1. p \in T /\ G[p] \cap T = {}
      BY <1>2, <2>1
    <3>2. QED
      BY <3>1
  <2>2. CASE T \cap S # {}
    <3>1. PICK q \in T \cap S : G[q] \cap (T \cap S) = {}
      BY <2>2 DEF AcyclicIn
    <3>2. G[q] \subseteq S
      BY <3>1 DEF ClosedIn
    <3>3. G[q] \cap T = {}
      BY <3>1, <3>2
    <3>4. QED
      BY <3>1, <3>3
  <2>3. QED
    BY <2>1, <2>2
<1>3. QED
  BY <1>1, <1>2 DEF AcyclicIn

(* A set of good nodes has no cycle, though each may be good for a reason  *)
(* of its own.                                                             *)
LEMMA GoodNodes ==
    ASSUME NEW G, NEW S, \A p \in S : GoodIn(G, p) PROVE AcyclicIn(G, S)
<1> SUFFICES ASSUME NEW T \in SUBSET S, T # {} PROVE \E q \in T : G[q] \cap T = {}
  BY DEF AcyclicIn
<1>1. PICK p : p \in T
  OBVIOUS
<1>2. PICK B \in SUBSET Paths : p \in B /\ ClosedIn(G, B) /\ AcyclicIn(G, B)
  BY <1>1 DEF GoodIn
<1>3. T \cap B # {} /\ T \cap B \in SUBSET B
  BY <1>1, <1>2
<1>4. PICK q \in T \cap B : G[q] \cap (T \cap B) = {}
  BY <1>2, <1>3 DEF AcyclicIn
<1>5. G[q] \subseteq B
  BY <1>2, <1>4 DEF ClosedIn
<1>6. QED
  BY <1>4, <1>5

-----------------------------------------------------------------------------
(* The inductive invariant                                                 *)

Refs == [p \in Paths |-> Graph(p)]
Edges == [p \in Paths |-> TargetsOf(p)]

\* Where the refs that the loop of p has looked at lead.
Examined(refs, next, p) == {refs[p][j] : j \in 1..(next[p] - 1)}

(* During the search: the black nodes are a closed part without a cycle,   *)
(* and what a gray node has looked at is black or further up the stack.    *)
Coloured ==
    /\ stack \in Seq(Listed) /\ black \subseteq Listed
    /\ \A i, j \in 1..Len(stack) : i # j => stack[i] # stack[j]
    /\ \A i \in 1..Len(stack) : stack[i] \notin black
    /\ ClosedIn(Edges, black) /\ AcyclicIn(Edges, black)
    /\ \A i \in 1..Len(stack) :
          Examined(Refs, nextRef, stack[i]) \subseteq black \cup {stack[k] : k \in (i + 1)..Len(stack)}

(* The searches that are over have shown their roots to be good.           *)
Searched ==
    /\ stack # <<>> => at <= Len(files) /\ stack[1] = files[at].path
    /\ \A i \in 1..(at - 1) : i \in DOMAIN files => GoodIn(Edges, files[i].path)

Shape ==
    /\ IsBundle(bundle)
    /\ at \in Nat \ {0} /\ nextRef \in [Paths -> Nat \ {0}]
    /\ \A p \in DOMAIN verified : verified[p].refs \in Seq(STRING)
    /\ stage \in Stages
    /\ stage \notin {"zip", "manifest", "done"} \/ result = "ok" => manifest # NoManifest
    /\ stage \notin {"walk", "done"} => stack = <<>>
    /\ stage \notin {"walk", "conditions", "done"} => black = {}
    /\ stage \in {"parse", "refs"} => at = 1
    /\ stage # "done" => result = "none"

Linked == stage \in {"walk", "conditions"} \/ result = "ok" => ClosedIn(Edges, Listed)

Walking == stage = "walk" => Coloured /\ Searched

Walked == stage = "conditions" \/ result = "ok" => \A p \in Listed : GoodIn(Edges, p)

IInv == Shape /\ Linked /\ Walking /\ Walked

LEMMA InitIInv == Init => IInv
<1> SUFFICES ASSUME Init PROVE IInv
  OBVIOUS
<1>1. IsBundle(bundle)
  BY BundlesAssumption DEF Init
<1>2. Shape
  BY <1>1 DEF Init, Begin, Shape, Stages
<1>3. Linked /\ Walking /\ Walked
  BY DEF Init, Begin, Linked, Walking, Walked
<1>4. QED
  BY <1>2, <1>3 DEF IInv

-----------------------------------------------------------------------------
(* The parts of the bundle                                                 *)

\* A graph is a function of the bundle and of what was verified.
LEMMA SameGraph ==
    ASSUME UNCHANGED <<bundle, verified>>
    PROVE  UNCHANGED <<Refs, Edges, manifest, files, Listed>>
BY DEF Refs, Edges, TargetsOf, Graph, manifest, files, Listed

LEMMA ListedArePaths ==
    ASSUME Shape, manifest # NoManifest
    PROVE  /\ Listed \in SUBSET Paths
           /\ Len(files) \in Nat /\ DOMAIN files = 1..Len(files)
           /\ \A i \in DOMAIN files : files[i].path \in Listed
           /\ \A p \in Listed : \E i \in DOMAIN files : files[i].path = p
BY DEF Shape, IsBundle, Listed, files, manifest, PathsOf

LEMMA RefsAreSequences ==
    ASSUME Shape, NEW p \in Paths
    PROVE  /\ Len(Graph(p)) \in Nat /\ DOMAIN Graph(p) = 1..Len(Graph(p))
           /\ Refs[p] = Graph(p)
           /\ Edges[p] = {Graph(p)[j] : j \in 1..Len(Graph(p))}
<1>1. Graph(p) \in Seq(Range(Graph(p)))
  <2>1. CASE p \in DOMAIN verified
    <3>1. verified[p].refs \in Seq(STRING)
      BY <2>1 DEF Shape
    <3>2. Graph(p) = [i \in 1..Len(verified[p].refs) |-> Resolve(verified[p].refs[i], p)]
      BY <2>1, <3>1 DEF Graph, RefTargets
    <3>3. QED
      BY <3>1, <3>2 DEF Range
  <2>2. CASE p \notin DOMAIN verified
    BY <2>2 DEF Graph
  <2>3. QED
    BY <2>1, <2>2
<1>2. Len(Graph(p)) \in Nat /\ DOMAIN Graph(p) = 1..Len(Graph(p))
  BY <1>1
<1>3. QED
  BY <1>2 DEF Refs, Edges, TargetsOf, Range

LEMMA ErrorsAreNotOk ==
    /\ ShapeError(manifest) # "ok"
    /\ \A f : HashError(f) # "ok"
BY DEF ShapeError, HashError

-----------------------------------------------------------------------------
(* The stages before the search                                            *)

\* A stage that leaves the bundle, the contents and the search alone.
Still == UNCHANGED <<bundle, at, verified, stack, nextRef, black>>

(* An early stage goes on to another one, or ends the call with an error.  *)
LEMMA EarlyStage ==
    ASSUME IInv, Still,
           stage \notin {"walk", "conditions", "done"},
           \/ /\ stage' \in {"manifest", "extras", "count", "hash", "parse", "refs"}
              /\ result' = result
           \/ stage' = "done" /\ result' # "ok",
           stage' \in {"parse", "refs"} => at = 1,
           stage' \notin {"zip", "manifest", "done"} => manifest # NoManifest
    PROVE  IInv'
<1>1. result # "ok"
  BY DEF IInv, Shape
<1>2. UNCHANGED <<Refs, Edges, manifest, files, Listed>>
  BY SameGraph DEF Still
<1>3. Shape'
  BY <1>1, <1>2 DEF IInv, Shape, Still, Stages
<1>4. Linked' /\ Walking' /\ Walked'
  BY <1>1 DEF IInv, Shape, Linked, Walking, Walked
<1>5. QED
  BY <1>3, <1>4 DEF IInv

LEMMA VerifyKeeps == IInv /\ VerifyEntry => IInv'
<1> SUFFICES ASSUME IInv, VerifyEntry PROVE IInv'
  OBVIOUS
<1> DEFINE f == files[at]
<1>1. CASE HashError(f) # "none"
  <2>1. Still /\ stage' = "done" /\ result' # "ok"
    BY <1>1, ErrorsAreNotOk DEF VerifyEntry, Finish, Still, search
  <2>2. stage = "hash"
    BY DEF VerifyEntry
  <2>3. QED
    BY <2>1, <2>2, EarlyStage
<1>2. CASE HashError(f) = "none"
  <2>1. EntriesNamed(f.path) # {}
    BY <1>2 DEF HashError
  <2>2. ContentOf(f.path).refs \in Seq(STRING)
    BY <2>1 DEF ContentOf, EntriesNamed, IInv, Shape, IsBundle
  <2>3. /\ stage = "hash" /\ stage' = stage /\ result' = result /\ at' = at + 1
        /\ UNCHANGED <<bundle, stack, nextRef, black>>
        /\ verified' = [p \in DOMAIN verified \cup {f.path} |->
                          IF p = f.path THEN ContentOf(p) ELSE verified[p]]
    BY <1>2 DEF VerifyEntry, search
  <2>4. \A p \in DOMAIN verified' : verified'[p].refs \in Seq(STRING)
    BY <2>2, <2>3 DEF IInv, Shape
  <2>5. result # "ok" /\ manifest' = manifest
    BY <2>3 DEF IInv, Shape, manifest
  <2>6. Shape'
    <3>1. Shape /\ IsBundle(bundle')
      BY <2>3 DEF IInv, Shape
    <3>2. at' \in Nat \ {0}
      BY <2>3, <3>1 DEF Shape
    <3>3. stage = "hash" /\ UNCHANGED <<stage, result, stack, nextRef, black>>
      BY <2>3
    <3>4. QED
      BY ONLY <2>4, <2>5, <3>1, <3>2, <3>3 DEF Shape, Stages
  <2>7. Linked' /\ Walking' /\ Walked'
    BY <2>3, <2>5 DEF Linked, Walking, Walked
  <2>8. QED
    BY <2>6, <2>7 DEF IInv
<1>3. QED
  BY <1>1, <1>2

(* The refs check lets only a closed graph into the search.                *)
LEMMA CheckKeeps == IInv /\ CheckRefs => IInv'
<1> SUFFICES ASSUME IInv, CheckRefs PROVE IInv'
  OBVIOUS
<1>1. Still /\ stage = "refs"
  BY DEF CheckRefs, Pass, Still, search
<1>2. result # "ok" /\ at = 1 /\ stack = <<>> /\ black = {} /\ manifest # NoManifest
  BY <1>1 DEF IInv, Shape
<1>3. CASE stage' = "done" /\ result' # "ok"
  BY <1>1, <1>3, EarlyStage
<1>4. CASE /\ \A p \in Listed : TargetsOf(p) \subseteq Listed
           /\ stage' = "walk" /\ result' = result
  <2>1. UNCHANGED <<Refs, Edges, manifest, files, Listed>>
    BY <1>1, SameGraph DEF Still
  <2>2. Shape'
    BY <1>1, <1>2, <1>4, <2>1 DEF IInv, Shape, Still, Stages
  <2>3. Listed \in SUBSET Paths
    BY <1>2, ListedArePaths DEF IInv
  <2>4. Linked'
    BY <1>4, <2>1, <2>3 DEF Linked, ClosedIn, Edges
  <2>5. Coloured' /\ Searched'
    BY <1>1, <1>2, <2>1 DEF Still, Coloured, Searched, ClosedIn, AcyclicIn
  <2>6. QED
    BY <1>2, <1>4, <2>2, <2>4, <2>5 DEF IInv, Walking, Walked
<1>5. QED
  BY <1>3, <1>4 DEF CheckRefs, Pass, Finish

-----------------------------------------------------------------------------
(* The search                                                              *)

LEMMA WalkFacts ==
    ASSUME IInv, stage = "walk"
    PROVE  /\ Shape /\ Coloured /\ Searched /\ ClosedIn(Edges, Listed)
           /\ manifest # NoManifest /\ Listed \in SUBSET Paths
           /\ result = "none" /\ stack \in Seq(Listed)
           /\ at \in Nat \ {0} /\ nextRef \in [Paths -> Nat \ {0}]
<1>1. Shape /\ Coloured /\ Searched /\ ClosedIn(Edges, Listed) /\ manifest # NoManifest
  BY DEF IInv, Linked, Walking, Shape
<1>2. QED
  BY <1>1, ListedArePaths DEF Shape, Coloured

(* A step that ends the call with an error.                                *)
LEMMA EndCall ==
    ASSUME IInv, stage' = "done", result' # "ok",
           UNCHANGED <<bundle, at, verified, stack, nextRef, black>>
    PROVE  IInv'
<1>1. UNCHANGED <<Refs, Edges, manifest, files, Listed>>
  BY SameGraph
<1>2. Shape'
  BY <1>1 DEF IInv, Shape, Stages
<1>3. Linked' /\ Walking' /\ Walked'
  BY DEF Linked, Walking, Walked
<1>4. QED
  BY <1>2, <1>3 DEF IInv

(* A step of the search keeps the rest of the invariant if it keeps the    *)
(* colours right.                                                          *)
LEMMA StepWalk ==
    ASSUME IInv, stage = "walk", UNCHANGED <<bundle, verified, stage, result>>,
           at' \in Nat \ {0}, nextRef' \in [Paths -> Nat \ {0}], Coloured', Searched'
    PROVE  IInv'
<1>1. UNCHANGED <<Refs, Edges, manifest, files, Listed>>
  BY SameGraph
<1>2. Shape /\ ClosedIn(Edges, Listed) /\ result = "none" /\ IsBundle(bundle')
  BY WalkFacts DEF Shape
<1>3. Shape'
  BY <1>1, <1>2 DEF Shape, Stages
<1>4. Linked' /\ Walking' /\ Walked'
  BY <1>1, <1>2 DEF Linked, Walking, Walked
<1>5. QED
  BY <1>3, <1>4 DEF IInv

LEMMA StartKeeps == IInv /\ StartSearch => IInv'
<1> SUFFICES ASSUME IInv, StartSearch PROVE IInv'
  OBVIOUS
<1> DEFINE root == files[at].path
<1>1. /\ stage = "walk" /\ stack = <<>> /\ at <= Len(files)
      /\ UNCHANGED <<bundle, verified, stage, result, at>>
      /\ stack' = <<root>> /\ nextRef' = [nextRef EXCEPT ![root] = 1] /\ black' = {}
  BY DEF StartSearch
<1>2. Shape /\ Searched /\ Listed \in SUBSET Paths /\ manifest # NoManifest
      /\ at \in Nat \ {0} /\ nextRef \in [Paths -> Nat \ {0}]
  BY <1>1, WalkFacts
<1>3. root \in Listed /\ root \in Paths
  BY <1>1, <1>2, ListedArePaths
<1>4. nextRef' \in [Paths -> Nat \ {0}] /\ nextRef'[root] = 1
  BY <1>1, <1>2, <1>3
<1>5. UNCHANGED <<Refs, Edges, manifest, files, Listed>>
  BY <1>1, SameGraph
<1>6. Coloured'
  <2>1. Examined(Refs', nextRef', root) = {}
    BY <1>4 DEF Examined
  <2>2. Len(stack') = 1 /\ stack'[1] = root /\ stack' \in Seq(Listed')
    BY <1>1, <1>3, <1>5
  <2>3. ClosedIn(Edges', black') /\ AcyclicIn(Edges', black')
    BY <1>1 DEF ClosedIn, AcyclicIn
  <2>4. \A i \in 1..Len(stack') : i = 1 /\ stack'[i] = root
    BY <2>2
  <2>5. QED
    BY ONLY <1>1, <2>1, <2>2, <2>3, <2>4 DEF Coloured
<1>7. Searched'
  BY <1>1, <1>2, <1>5 DEF Searched
<1>8. QED
  BY <1>1, <1>2, <1>4, <1>6, <1>7, StepWalk

(* What the loop of p has looked at after one more ref.                    *)
LEMMA ExaminedMore ==
    \A refs, before, after, p :
        before[p] \in Nat \ {0} /\ after[p] = before[p] + 1 =>
            Examined(refs, after, p) = Examined(refs, before, p) \cup {refs[p][before[p]]}
<1> SUFFICES ASSUME NEW refs, NEW before, NEW after, NEW p,
                    before[p] \in Nat \ {0}, after[p] = before[p] + 1
             PROVE  Examined(refs, after, p) = Examined(refs, before, p) \cup {refs[p][before[p]]}
  OBVIOUS
<1>1. 1..(after[p] - 1) = (1..(before[p] - 1)) \cup {before[p]}
  OBVIOUS
<1>2. QED
  BY <1>1 DEF Examined

LEMMA VisitKeeps == IInv /\ VisitEdge => IInv'
<1> SUFFICES ASSUME IInv, VisitEdge PROVE IInv'
  OBVIOUS
<1> DEFINE n == Len(stack)
           t == stack[n]
           next == Graph(t)[nextRef[t]]
<1>1. /\ stage = "walk" /\ stack # <<>> /\ nextRef[t] <= Len(Graph(t))
      /\ UNCHANGED <<bundle, at, verified, black>>
  BY DEF VisitEdge, Top, Last
<1>2. /\ Shape /\ Coloured /\ Searched /\ ClosedIn(Edges, Listed) /\ manifest # NoManifest
      /\ Listed \in SUBSET Paths /\ stack \in Seq(Listed)
      /\ at \in Nat \ {0} /\ nextRef \in [Paths -> Nat \ {0}]
  BY <1>1, WalkFacts
<1>3. n \in Nat \ {0} /\ t \in Listed /\ t \in Paths /\ nextRef[t] \in Nat \ {0}
  BY <1>1, <1>2
<1>4. next = Refs[t][nextRef[t]] /\ next \in Edges[t]
  BY <1>1, <1>2, <1>3, RefsAreSequences
<1>5. next \in Listed /\ next \in Paths
  BY <1>2, <1>3, <1>4 DEF ClosedIn
<1>6. UNCHANGED <<Refs, Edges, manifest, files, Listed>>
  BY <1>1, SameGraph
<1>7. Gray = {stack[k] : k \in 1..n}
  BY <1>2 DEF Gray, Range
<1>8. CASE stage' = "done" /\ result' # "ok" /\ UNCHANGED <<stack, nextRef>>
  BY <1>1, <1>8, EndCall
<1>9. CASE /\ next \in black /\ nextRef' = [nextRef EXCEPT ![t] = @ + 1]
           /\ UNCHANGED <<stack, stage, result>>
  <2>1. nextRef' \in [Paths -> Nat \ {0}] /\ nextRef'[t] = nextRef[t] + 1
    BY <1>2, <1>3, <1>9
  <2>2. Examined(Refs, nextRef', t) = Examined(Refs, nextRef, t) \cup {next}
    BY ONLY <1>3, <1>4, <2>1, ExaminedMore
  <2>3. ASSUME NEW i \in 1..n
        PROVE  Examined(Refs, nextRef', stack[i]) \subseteq black \cup {stack[k] : k \in (i + 1)..n}
    <3>1. Examined(Refs, nextRef, stack[i]) \subseteq black \cup {stack[k] : k \in (i + 1)..n}
      BY <1>2 DEF Coloured
    <3>2. CASE stack[i] = t
      BY <1>9, <2>2, <3>1, <3>2
    <3>3. CASE stack[i] # t
      BY <1>2, <1>3, <1>9, <3>1, <3>3 DEF Examined
    <3>4. QED
      BY <3>2, <3>3
  <2>4. Coloured'
    <3>1. Coloured /\ UNCHANGED <<Refs, Edges, Listed, stack, black>>
      BY <1>1, <1>2, <1>6, <1>9
    <3>2. \A i \in 1..Len(stack) : Examined(Refs, nextRef', stack[i])
                                      \subseteq black \cup {stack[k] : k \in (i + 1)..Len(stack)}
      BY <2>3
    <3>3. QED
      BY ONLY <3>1, <3>2 DEF Coloured
  <2>5. Searched'
    BY <1>1, <1>2, <1>6, <1>9 DEF Searched
  <2>6. QED
    BY <1>1, <1>2, <1>9, <2>1, <2>4, <2>5, StepWalk
<1>10. CASE /\ next \notin Gray /\ next \notin black /\ stack' = Append(stack, next)
            /\ nextRef' = [nextRef EXCEPT ![t] = @ + 1, ![next] = 1]
            /\ UNCHANGED <<stage, result>>
  <2>1. next # t /\ \A k \in 1..n : stack[k] # next
    BY <1>3, <1>7, <1>10
  <2>2. /\ nextRef' \in [Paths -> Nat \ {0}]
        /\ nextRef'[t] = nextRef[t] + 1 /\ nextRef'[next] = 1
        /\ \A p \in Paths : p # t /\ p # next => nextRef'[p] = nextRef[p]
    BY <1>2, <1>3, <1>5, <1>10, <2>1
  <2>3. /\ stack' \in Seq(Listed) /\ Len(stack') = n + 1 /\ stack'[n + 1] = next
        /\ \A k \in 1..n : stack'[k] = stack[k]
    BY <1>2, <1>5, <1>10
  <2>4. Examined(Refs, nextRef', t) = Examined(Refs, nextRef, t) \cup {next}
    BY ONLY <1>3, <1>4, <2>2, ExaminedMore
  <2>5. ASSUME NEW i \in 1..(n + 1)
        PROVE  Examined(Refs, nextRef', stack'[i])
                  \subseteq black \cup {stack'[k] : k \in (i + 1)..(n + 1)}
    <3>1. CASE i = n + 1
      BY <2>2, <2>3, <3>1 DEF Examined
    <3>2. CASE i \in 1..n
      <4>1. Examined(Refs, nextRef, stack[i]) \subseteq black \cup {stack[k] : k \in (i + 1)..n}
        BY <1>2, <3>2 DEF Coloured
      <4>2. {stack[k] : k \in (i + 1)..n} \subseteq {stack'[k] : k \in (i + 1)..(n + 1)}
        BY <1>3, <2>3, <3>2
      <4>3. next \in {stack'[k] : k \in (i + 1)..(n + 1)}
        BY <1>3, <2>3, <3>2
      <4>4. CASE stack[i] = t
        BY <2>3, <2>4, <3>2, <4>1, <4>2, <4>3, <4>4
      <4>5. CASE stack[i] # t
        <5>1. stack[i] \in Paths /\ stack[i] # next
          BY <1>2, <2>1, <3>2
        <5>2. nextRef'[stack[i]] = nextRef[stack[i]]
          BY <2>2, <4>5, <5>1
        <5>3. Examined(Refs, nextRef', stack[i]) = Examined(Refs, nextRef, stack[i])
          BY <5>2 DEF Examined
        <5>4. QED
          BY <2>3, <3>2, <4>1, <4>2, <5>3
      <4>6. QED
        BY <4>4, <4>5
    <3>3. QED
      BY <1>3, <3>1, <3>2
  <2>6. \A i, j \in 1..(n + 1) : i # j => stack'[i] # stack'[j]
    <3>1. \A i, j \in 1..n : i # j => stack[i] # stack[j]
      BY <1>2 DEF Coloured
    <3>2. QED
      BY <1>3, <2>1, <2>3, <3>1
  <2>7. \A i \in 1..(n + 1) : stack'[i] \notin black
    <3>1. \A i \in 1..n : stack[i] \notin black
      BY <1>2 DEF Coloured
    <3>2. QED
      BY <1>3, <1>10, <2>3, <3>1
  <2>8. black' \subseteq Listed' /\ ClosedIn(Edges', black') /\ AcyclicIn(Edges', black')
    BY <1>1, <1>2, <1>6 DEF Coloured
  <2>9. Coloured'
    BY ONLY <1>1, <1>6, <2>3, <2>5, <2>6, <2>7, <2>8 DEF Coloured
  <2>10. Searched'
    BY <1>1, <1>2, <1>3, <1>6, <2>3 DEF Searched
  <2>11. QED
    BY <1>1, <1>2, <1>10, <2>2, <2>9, <2>10, StepWalk
<1>11. QED
  BY <1>8, <1>9, <1>10 DEF VisitEdge, Finish, Top, Last

LEMMA LeaveKeeps == IInv /\ LeaveNode => IInv'
<1> SUFFICES ASSUME IInv, LeaveNode PROVE IInv'
  OBVIOUS
<1> DEFINE n == Len(stack)
           t == stack[n]
<1>1. /\ stage = "walk" /\ stack # <<>> /\ nextRef[t] > Len(Graph(t))
      /\ stack' = SubSeq(stack, 1, n - 1) /\ black' = black \cup {t}
      /\ at' = IF n = 1 THEN at + 1 ELSE at
      /\ UNCHANGED <<bundle, verified, stage, result, nextRef>>
  BY DEF LeaveNode, Top, Last, Front
<1>2. /\ Shape /\ Coloured /\ Searched /\ manifest # NoManifest
      /\ Listed \in SUBSET Paths /\ stack \in Seq(Listed)
      /\ at \in Nat \ {0} /\ nextRef \in [Paths -> Nat \ {0}]
  BY <1>1, WalkFacts
<1>3. n \in Nat \ {0} /\ t \in Listed /\ t \in Paths /\ nextRef[t] \in Nat \ {0}
  BY <1>1, <1>2
<1>4. UNCHANGED <<Refs, Edges, manifest, files, Listed>>
  BY <1>1, SameGraph
<1>5. /\ black \subseteq Listed /\ t \notin black
      /\ ClosedIn(Edges, black) /\ AcyclicIn(Edges, black)
      /\ \A i \in 1..n : stack[i] \notin black
      /\ \A i, j \in 1..n : i # j => stack[i] # stack[j]
      /\ \A i \in 1..n :
            Examined(Refs, nextRef, stack[i]) \subseteq black \cup {stack[k] : k \in (i + 1)..n}
  BY <1>2, <1>3 DEF Coloured
<1>6. Edges[t] \subseteq black
  <2>1. Examined(Refs, nextRef, t) \subseteq black
    <3>1. (n + 1)..n = {}
      BY <1>3
    <3>2. QED
      BY <1>3, <1>5, <3>1
  <2>2. Edges[t] = {Refs[t][j] : j \in 1..Len(Graph(t))} /\ Len(Graph(t)) \in Nat
    BY <1>2, <1>3, RefsAreSequences
  <2>3. 1..Len(Graph(t)) \subseteq 1..(nextRef[t] - 1)
    BY <1>1, <1>3, <2>2
  <2>4. QED
    BY <2>1, <2>2, <2>3 DEF Examined
<1>7. ClosedIn(Edges, black') /\ AcyclicIn(Edges, black')
  BY ONLY <1>1, <1>5, <1>6, AddNode
<1>8. /\ stack' \in Seq(Listed) /\ Len(stack') = n - 1
      /\ \A k \in 1..(n - 1) : stack'[k] = stack[k]
  <2>1. \A S, s, m : s \in Seq(S) /\ m \in 0..Len(s) =>
           /\ SubSeq(s, 1, m) \in Seq(S) /\ Len(SubSeq(s, 1, m)) = m
           /\ \A k \in 1..m : SubSeq(s, 1, m)[k] = s[k]
    OBVIOUS
  <2>2. n - 1 \in 0..n /\ stack' = SubSeq(stack, 1, n - 1) /\ stack \in Seq(Listed)
    BY <1>1, <1>2, <1>3
  <2>3. QED
    BY ONLY <2>1, <2>2
<1>9. Coloured'
  <2>1. black' \subseteq Listed
    BY <1>1, <1>3, <1>5
  <2>2. \A i, j \in 1..(n - 1) : i # j => stack'[i] # stack'[j]
    BY <1>3, <1>5, <1>8
  <2>3. \A i \in 1..(n - 1) : stack'[i] \notin black'
    <3>1. \A i \in 1..(n - 1) : stack[i] # t
      BY <1>3, <1>5
    <3>2. QED
      BY <1>1, <1>3, <1>5, <1>8, <3>1
  <2>4. ASSUME NEW i \in 1..(n - 1)
        PROVE  Examined(Refs, nextRef, stack'[i])
                  \subseteq black' \cup {stack'[k] : k \in (i + 1)..(n - 1)}
    <3>1. Examined(Refs, nextRef, stack[i]) \subseteq black \cup {stack[k] : k \in (i + 1)..n}
      BY <1>3, <1>5
    <3>2. {stack[k] : k \in (i + 1)..n} \subseteq {t} \cup {stack'[k] : k \in (i + 1)..(n - 1)}
      BY <1>3, <1>8
    <3>3. stack'[i] = stack[i]
      BY <1>8
    <3>4. QED
      BY <1>1, <3>1, <3>2, <3>3
  <2>5. nextRef' = nextRef
    BY <1>1
  <2>6. QED
    BY ONLY <1>4, <1>7, <1>8, <2>1, <2>2, <2>3, <2>4, <2>5 DEF Coloured
<1>10. at' \in Nat \ {0}
  BY <1>1, <1>2
<1>11. Searched'
  <2>1. at <= Len(files) /\ stack[1] = files[at].path
    BY <1>1, <1>2 DEF Searched
  <2>2. CASE n = 1
    <3>1. stack' = <<>> /\ at' = at + 1
      BY <1>1, <1>8, <2>2
    <3>2. GoodIn(Edges, files[at].path)
      <4>1. files[at].path \in black' /\ black' \in SUBSET Paths
        BY <1>1, <1>2, <1>3, <1>5, <2>1, <2>2
      <4>2. QED
        BY ONLY <1>7, <4>1 DEF GoodIn
    <3>3. \A i \in 1..(at - 1) : i \in DOMAIN files => GoodIn(Edges, files[i].path)
      BY <1>2 DEF Searched
    <3>4. \A i \in 1..at : i \in DOMAIN files => GoodIn(Edges, files[i].path)
      BY <1>2, <3>2, <3>3
    <3>5. at' - 1 = at
      BY <1>2, <3>1
    <3>6. QED
      BY ONLY <1>4, <3>1, <3>4, <3>5 DEF Searched
  <2>3. CASE n # 1
    <3>1. at' = at /\ stack'[1] = stack[1]
      BY <1>1, <1>3, <1>8, <2>3
    <3>2. Searched
      BY <1>2
    <3>3. QED
      BY ONLY <1>4, <2>1, <3>1, <3>2 DEF Searched
  <2>4. QED
    BY <2>2, <2>3
<1>12. QED
  BY <1>1, <1>2, <1>9, <1>10, <1>11, StepWalk

(* The search is over: every file was the root of one.                     *)
LEMMA WalkDoneKeeps == IInv /\ WalkDone => IInv'
<1> SUFFICES ASSUME IInv, WalkDone PROVE IInv'
  OBVIOUS
<1>1. /\ stage = "walk" /\ stack = <<>> /\ at > Len(files) /\ stage' = "conditions"
      /\ UNCHANGED <<bundle, verified, result, at, stack, nextRef, black>>
  BY DEF WalkDone, Pass, search
<1>2. /\ Shape /\ Searched /\ ClosedIn(Edges, Listed) /\ manifest # NoManifest
      /\ Listed \in SUBSET Paths /\ result = "none" /\ at \in Nat \ {0}
      /\ nextRef \in [Paths -> Nat \ {0}] /\ IsBundle(bundle')
  BY <1>1, WalkFacts DEF Shape
<1>3. UNCHANGED <<Refs, Edges, manifest, files, Listed>>
  BY <1>1, SameGraph
<1>4. \A p \in Listed : GoodIn(Edges, p)
  <2>1. ASSUME NEW p \in Listed PROVE GoodIn(Edges, p)
    <3>1. PICK i \in DOMAIN files : files[i].path = p
      BY <1>2, ListedArePaths
    <3>2. i \in 1..(at - 1)
      BY <1>1, <1>2, <3>1, ListedArePaths
    <3>3. QED
      BY <1>2, <3>1, <3>2 DEF Searched
  <2>2. QED
    BY <2>1
<1>5. Shape'
  BY <1>1, <1>2, <1>3 DEF Shape, Stages
<1>6. Linked' /\ Walking' /\ Walked'
  BY <1>1, <1>2, <1>3, <1>4 DEF Linked, Walking, Walked
<1>7. QED
  BY <1>5, <1>6 DEF IInv

LEMMA NormalizeKeeps == IInv /\ NormalizeConditions => IInv'
<1> SUFFICES ASSUME IInv, NormalizeConditions PROVE IInv'
  OBVIOUS
<1>1. /\ stage = "conditions" /\ stage' = "done"
      /\ UNCHANGED <<bundle, verified, at, stack, nextRef, black>>
  BY DEF NormalizeConditions, Finish, search
<1>2. UNCHANGED <<Refs, Edges, manifest, files, Listed>>
  BY <1>1, SameGraph
<1>3. Shape /\ ClosedIn(Edges, Listed) /\ (\A p \in Listed : GoodIn(Edges, p)) /\ IsBundle(bundle')
      /\ manifest # NoManifest
  BY <1>1 DEF IInv, Shape, Linked, Walked
<1>4. Shape'
  BY <1>1, <1>2, <1>3 DEF Shape, Stages
<1>5. Linked' /\ Walking' /\ Walked'
  BY <1>1, <1>2, <1>3 DEF Linked, Walking, Walked
<1>6. QED
  BY <1>4, <1>5 DEF IInv

LEMMA StutterKeeps == IInv /\ UNCHANGED vars => IInv'
<1> SUFFICES ASSUME IInv, UNCHANGED vars PROVE IInv'
  OBVIOUS
<1>1. UNCHANGED <<bundle, stage, result, at, verified, stack, nextRef, black>>
  BY DEF vars, search
<1>2. UNCHANGED <<Refs, Edges, manifest, files, Listed>>
  BY <1>1, SameGraph
<1>3. Shape'
  BY <1>1, <1>2 DEF IInv, Shape
<1>4. Linked' /\ Walked'
  BY <1>1, <1>2 DEF IInv, Linked, Walked
<1>5. Walking'
  BY <1>1, <1>2 DEF IInv, Walking, Coloured, Searched
<1>6. QED
  BY <1>3, <1>4, <1>5 DEF IInv

LEMMA NextKeeps == IInv /\ [Next]_vars => IInv'
<1> SUFFICES ASSUME IInv, [Next]_vars PROVE IInv'
  OBVIOUS
<1>1. CASE OpenConstrainedZip
  <2>1. Still /\ stage = "zip"
    BY <1>1 DEF OpenConstrainedZip, Pass, Still, search
  <2>2. \/ stage' = "manifest" /\ result' = result
        \/ stage' = "done" /\ result' # "ok"
    BY <1>1 DEF OpenConstrainedZip, Pass, Finish
  <2>3. QED
    BY <2>1, <2>2, EarlyStage, EndCall DEF Still, IInv, Shape
<1>2. CASE ReadManifest
  <2>1. Still /\ stage = "manifest"
    BY <1>2 DEF ReadManifest, Pass, Still, search
  <2>2. \/ stage' = "extras" /\ result' = result /\ manifest # NoManifest
        \/ stage' = "done" /\ result' # "ok"
    BY <1>2, ErrorsAreNotOk DEF ReadManifest, Pass, Finish
  <2>3. QED
    BY <2>1, <2>2, EarlyStage, EndCall DEF Still
<1>3. CASE CheckExtraEntries
  <2>1. Still /\ stage = "extras" /\ manifest # NoManifest
    BY <1>3 DEF CheckExtraEntries, Pass, Still, search, IInv, Shape
  <2>2. \/ stage' = "count" /\ result' = result
        \/ stage' = "done" /\ result' # "ok"
    BY <1>3 DEF CheckExtraEntries, Pass, Finish
  <2>3. QED
    BY <2>1, <2>2, EarlyStage
<1>4. CASE CountFiles
  <2>1. Still /\ stage = "count" /\ manifest # NoManifest
    BY <1>4 DEF CountFiles, Pass, Still, search, IInv, Shape
  <2>2. \/ stage' = "hash" /\ result' = result
        \/ stage' = "done" /\ result' # "ok"
    BY <1>4 DEF CountFiles, Pass, Finish
  <2>3. QED
    BY <2>1, <2>2, EarlyStage
<1>5. CASE VerifyEntry
  BY <1>5, VerifyKeeps
<1>6. CASE HashesDone
  <2>1. /\ stage = "hash" /\ stage' = "parse" /\ at' = 1
        /\ UNCHANGED <<bundle, result, verified, stack, nextRef, black>>
    BY <1>6 DEF HashesDone, search
  <2>2. UNCHANGED <<Refs, Edges, manifest, files, Listed>>
    BY <2>1, SameGraph
  <2>3. Shape /\ result # "ok" /\ manifest # NoManifest /\ IsBundle(bundle')
    BY <2>1 DEF IInv, Shape
  <2>4. Shape'
    BY <2>1, <2>2, <2>3 DEF Shape, Stages
  <2>5. Linked' /\ Walking' /\ Walked'
    BY <2>1, <2>3 DEF Linked, Walking, Walked
  <2>6. QED
    BY <2>4, <2>5 DEF IInv
<1>7. CASE ParseAllWorkflows
  <2>1. Still /\ stage = "parse" /\ manifest # NoManifest /\ at = 1
    BY <1>7 DEF ParseAllWorkflows, Pass, Still, search, IInv, Shape
  <2>2. \/ stage' = "refs" /\ result' = result
        \/ stage' = "done" /\ result' # "ok"
    BY <1>7 DEF ParseAllWorkflows, Pass, Finish
  <2>3. QED
    BY <2>1, <2>2, EarlyStage
<1>8. CASE CheckRefs
  BY <1>8, CheckKeeps
<1>9. CASE StartSearch
  BY <1>9, StartKeeps
<1>10. CASE VisitEdge
  BY <1>10, VisitKeeps
<1>11. CASE LeaveNode
  BY <1>11, LeaveKeeps
<1>12. CASE WalkDone
  BY <1>12, WalkDoneKeeps
<1>13. CASE NormalizeConditions
  BY <1>13, NormalizeKeeps
<1>14. CASE Cancelled
  <2>1. /\ stage' = "done" /\ result' # "ok"
        /\ UNCHANGED <<bundle, at, verified, stack, nextRef, black>>
    BY <1>14 DEF Cancelled, Finish, search
  <2>2. QED
    BY <2>1, EndCall
<1>15. CASE UNCHANGED vars
  BY <1>15, StutterKeeps
<1>16. QED
  BY <1>1, <1>2, <1>3, <1>4, <1>5, <1>6, <1>7, <1>8, <1>9, <1>10, <1>11, <1>12, <1>13, <1>14, <1>15
     DEF Next

-----------------------------------------------------------------------------
(* Sums of sizes                                                           *)

LEMMA HasLeast ==
  ASSUME NEW S \in SUBSET Nat, S # {} PROVE \E x \in S : \A y \in S : x <= y
<1> DEFINE R == {ss \in Nat \X Nat : ss[1] < ss[2]}
<1>1. IsWellFoundedOn(R, Nat)
  BY NatLessThanWellFounded DEF OpToRel
<1>2. PICK x \in S : \A y \in S : <<y, x>> \notin R
  BY <1>1, WFMin
<1>3. ASSUME NEW y \in S PROVE x <= y
  <2>1. <<y, x>> \in Nat \X Nat /\ <<y, x>> \notin R
    BY <1>2
  <2>2. ~(<<y, x>>[1] < <<y, x>>[2])
    BY <2>1
  <2>3. QED
    BY <2>2
<1>4. QED
  BY <1>3

(* The total of a list, element by element.                                *)
LEMMA RunningTotal ==
  ASSUME NEW N \in Nat, NEW s \in [1..N -> Nat]
  PROVE  \E f \in [0..N -> Nat] : f[0] = 0 /\ \A k \in 1..N : f[k] = f[k - 1] + s[k]
<1> DEFINE Adds(f, m) == f[0] = 0 /\ \A k \in 1..m : f[k] = f[k - 1] + s[k]
           Good(m) == \E f \in [0..m -> Nat] : Adds(f, m)
           bad == {m \in 0..N : ~Good(m)}
<1>1. Good(0)
  <2> DEFINE f == [k \in 0..0 |-> 0]
  <2>1. f \in [0..0 -> Nat] /\ f[0] = 0 /\ 1..0 = {}
    OBVIOUS
  <2>2. QED
    BY <2>1
<1>2. ASSUME NEW m \in 1..N, Good(m - 1) PROVE Good(m)
  <2>1. PICK g \in [0..(m - 1) -> Nat] : Adds(g, m - 1)
    BY <1>2
  <2> DEFINE f == [k \in 0..m |-> IF k = m THEN g[m - 1] + s[m] ELSE g[k]]
  <2>2. m - 1 \in 0..(m - 1) /\ g[m - 1] \in Nat /\ s[m] \in Nat
    OBVIOUS
  <2>3. f \in [0..m -> Nat]
    <3>1. \A k \in 0..m : k = m \/ k \in 0..(m - 1)
      OBVIOUS
    <3>2. QED
      BY <2>2, <3>1
  <2>4. f[m] = g[m - 1] + s[m] /\ \A k \in 0..(m - 1) : f[k] = g[k]
    OBVIOUS
  <2> HIDE DEF f
  <2>5. Adds(f, m)
    <3>1. f[0] = 0
      BY <2>1, <2>4
    <3>2. ASSUME NEW k \in 1..m PROVE f[k] = f[k - 1] + s[k]
      <4>1. CASE k = m
        BY <2>4, <4>1
      <4>2. CASE k # m
        <5>1. k \in 1..(m - 1) /\ k - 1 \in 0..(m - 1) /\ k \in 0..(m - 1)
          BY <4>2
        <5>2. g[k] = g[k - 1] + s[k]
          BY <2>1, <5>1
        <5>3. QED
          BY <2>4, <5>1, <5>2
      <4>3. QED
        BY <4>1, <4>2
    <3>3. QED
      BY <3>1, <3>2
  <2>6. QED
    BY <2>3, <2>5
<1> HIDE DEF Good
<1>3. bad = {}
  <2> SUFFICES ASSUME bad # {} PROVE FALSE
    OBVIOUS
  <2>1. PICK m \in bad : \A y \in bad : m <= y
    <3>1. bad \in SUBSET Nat
      OBVIOUS
    <3> HIDE DEF bad
    <3>2. QED
      BY <3>1, HasLeast
  <2>2. m \in 0..N /\ ~Good(m) /\ m # 0
    BY <1>1, <2>1
  <2>3. m - 1 \in 0..N /\ m - 1 \notin bad
    BY <2>1, <2>2
  <2>4. QED
    BY <1>2, <2>2, <2>3
<1>4. Good(N)
  BY <1>3
<1>5. QED
  BY <1>4 DEF Good

(* SizeUpTo adds up the sizes of the files.                                *)
LEMMA SizesAddUp ==
    ASSUME Shape, manifest # NoManifest
    PROVE  /\ SizeUpTo[0] = 0
           /\ \A k \in 1..Len(files) : SizeOf(k) \in Nat /\ SizeUpTo[k] = SizeUpTo[k - 1] + SizeOf(k)
<1> DEFINE N == Len(files)
           s == [k \in 1..N |-> SizeOf(k)]
           Sums(f) == [k \in 0..N |-> IF k = 0 THEN 0 ELSE f[k - 1] + s[k]]
<1>1. N \in Nat /\ DOMAIN files = 1..N
  BY ListedArePaths
<1>2. ASSUME NEW k \in 1..N PROVE SizeOf(k) \in Nat
  <2>1. CASE Present(k)
    <3>1. \A i \in DOMAIN bundle.zip : bundle.zip[i].content.size \in Nat
      BY DEF Shape, IsBundle
    <3>2. ContentOf(files[k].path).size \in Nat
      BY <2>1, <3>1 DEF Present, ContentOf, EntriesNamed
    <3>3. QED
      BY <2>1, <3>2 DEF SizeOf
  <2>2. CASE ~Present(k)
    BY <2>2 DEF SizeOf
  <2>3. QED
    BY <2>1, <2>2
<1>3. s \in [1..N -> Nat]
  BY <1>2
<1>4. SizeUpTo = CHOOSE f : f = Sums(f)
  <2>1. \A f : [k \in 0..Len(files) |-> IF k = 0 THEN 0 ELSE f[k - 1] + SizeOf(k)] = Sums(f)
    BY <1>1
  <2>2. QED
    BY <2>1 DEF SizeUpTo
<1>5. \A k \in 1..N : s[k] = SizeOf(k)
  OBVIOUS
<1> HIDE DEF s
<1>6. \E f : f = Sums(f)
  <2>1. PICK f \in [0..N -> Nat] : f[0] = 0 /\ \A k \in 1..N : f[k] = f[k - 1] + s[k]
    BY <1>1, <1>3, RunningTotal
  <2>2. \A k \in 0..N : f[k] = IF k = 0 THEN 0 ELSE f[k - 1] + s[k]
    BY <1>1, <2>1
  <2>3. f = Sums(f)
    BY <2>2
  <2>4. QED
    BY <2>3
<1>7. SizeUpTo = Sums(SizeUpTo)
  <2> HIDE DEF Sums
  <2>1. QED
    BY <1>4, <1>6
<1>8. SizeUpTo[0] = 0 /\ \A k \in 1..N : SizeUpTo[k] = SizeUpTo[k - 1] + s[k]
  BY <1>1, <1>7
<1>9. QED
  BY <1>2, <1>5, <1>8

-----------------------------------------------------------------------------
(* What the stages have seen to                                            *)

\* The contents of the first n files of the manifest have been taken over.
Taken(n) ==
    /\ DOMAIN verified = {files[i].path : i \in DOMAIN files \cap 1..n}
    /\ \A i \in DOMAIN files \cap 1..n : verified[files[i].path] = files[i].sha

AfterManifest == {"extras", "count", "hash", "parse", "refs", "walk", "conditions"}
AfterHash == {"parse", "refs", "walk", "conditions"}

Passed ==
    /\ stage \in AfterManifest => ShapeError(manifest) = "none"
    /\ stage \in AfterManifest \ {"extras"} =>
          (~lax => \A i \in DOMAIN bundle.zip : bundle.zip[i].name \in Listed)
    /\ stage = "hash" => /\ at <= Len(files) + 1 /\ total = SizeUpTo[at - 1]
                         /\ Taken(at - 1) /\ InOrder(at - 1)
    /\ stage \in AfterHash => Taken(Len(files)) /\ InOrder(Len(files))
    /\ stage \in {"refs", "walk", "conditions"} => AllParse
    /\ stage \in {"zip", "manifest", "extras", "count"} => at = 1 /\ total = 0 /\ DOMAIN verified = {}

\* Each call on the stack was made for a ref of the one below it.
Chained == \A i \in 1..(Len(stack) - 1) : stack[i + 1] \in TargetsOf(stack[i])

Checked ==
    /\ TypeOK /\ total <= TotalCap
    /\ Passed /\ Chained
    /\ ContentsAreVerified /\ RefusalsAreEarned

(* No refusal, no cause to look for.                                       *)
LEMMA NotRefused == \A r \in {"none", "ok"} : Earned(r)
BY DEF Earned, EarlierStagesPassed, ZipOrManifestAtFault, TextAtFault

LEMMA InitChecked == Init => Checked
<1> SUFFICES ASSUME Init PROVE Checked
  OBVIOUS
<1>1. TypeOK /\ total <= TotalCap
  BY CapsAssumption DEF Init, Begin, TypeOK, Stages
<1>2. Passed /\ Chained
  BY DEF Init, Begin, Passed, Chained, AfterManifest, AfterHash
<1>3. ContentsAreVerified /\ RefusalsAreEarned
  BY NotRefused DEF Init, Begin, ContentsAreVerified, RefusalsAreEarned
<1>4. QED
  BY <1>1, <1>2, <1>3 DEF Checked

\* What the properties speak of besides the stage and the result.
Seen == <<bundle, lax, verified, total, stack>>

LEMMA SameFiles ==
    ASSUME UNCHANGED bundle
    PROVE  /\ UNCHANGED <<manifest, files, Listed, SizeUpTo, AllParse>>
           /\ \A n : InOrder(n)' <=> InOrder(n)
           /\ \A i : /\ Present(i)' = Present(i) /\ SizeOf(i)' = SizeOf(i)
                     /\ Fits(i)' = Fits(i) /\ Matches(i)' = Matches(i)
           /\ \A p : ContentOf(p)' = ContentOf(p)
           /\ ShapeError(manifest)' = ShapeError(manifest)
<1>1. UNCHANGED <<manifest, files, Listed>> /\ \A p : /\ EntriesNamed(p)' = EntriesNamed(p)
                                                      /\ ContentOf(p)' = ContentOf(p)
  BY DEF manifest, files, Listed, EntriesNamed, ContentOf
<1>2. \A i : Present(i)' = Present(i) /\ SizeOf(i)' = SizeOf(i) /\ Matches(i)' = Matches(i)
  BY <1>1 DEF Present, SizeOf, Matches
<1>3. SizeUpTo' = SizeUpTo
  BY <1>1, <1>2 DEF SizeUpTo
<1>4. \A i : Fits(i)' = Fits(i)
  BY <1>2, <1>3 DEF Fits
<1>5. QED
  BY <1>1, <1>2, <1>3, <1>4 DEF InOrder, AllParse

LEMMA SameSight ==
    ASSUME UNCHANGED Seen
    PROVE  /\ UNCHANGED <<manifest, files, Listed, SizeUpTo, AllParse>>
           /\ \A n : (Taken(n)' <=> Taken(n)) /\ (InOrder(n)' <=> InOrder(n))
           /\ \A p : TargetsOf(p)' = TargetsOf(p)
           /\ Chained' <=> Chained
<1>1. UNCHANGED <<bundle, lax, verified, total, stack>>
  BY DEF Seen
<1>2. UNCHANGED <<manifest, files, Listed, SizeUpTo, AllParse>> /\ \A n : InOrder(n)' <=> InOrder(n)
  BY <1>1, SameFiles
<1>3. \A p : TargetsOf(p)' = TargetsOf(p)
  BY <1>1 DEF TargetsOf, Graph
<1>4. QED
  BY <1>1, <1>2, <1>3 DEF Taken, Chained

(* What a refusal deserves does not depend on the stage.                   *)
LEMMA SameCause ==
    ASSUME UNCHANGED <<Seen, at>> PROVE \A r : Earned(r)' <=> Earned(r)
<1>1. /\ UNCHANGED <<bundle, lax, verified, stack, at>>
      /\ UNCHANGED <<manifest, files, Listed, SizeUpTo, AllParse>>
      /\ \A n : InOrder(n)' <=> InOrder(n)
      /\ \A p : TargetsOf(p)' = TargetsOf(p)
  BY SameSight DEF Seen
<1>2. /\ ShapeError(manifest)' = ShapeError(manifest)
      /\ \A p : ContentOf(p)' = ContentOf(p)
      /\ \A i : Present(i)' = Present(i) /\ Fits(i)' = Fits(i) /\ Matches(i)' = Matches(i)
  BY <1>1, SameFiles
<1>3. UNCHANGED <<RefsClosed, Acyclic(Listed)>>
  BY <1>1 DEF RefsClosed, Acyclic
<1>4. \A r : EarlierStagesPassed(r)' <=> EarlierStagesPassed(r)
  BY <1>1, <1>2, <1>3 DEF EarlierStagesPassed
<1>5. \A r : ZipOrManifestAtFault(r)' <=> ZipOrManifestAtFault(r)
  BY <1>1 DEF ZipOrManifestAtFault
<1>6. \A r : TextAtFault(r)' <=> TextAtFault(r)
  BY <1>1, <1>2, <1>3 DEF TextAtFault
<1>7. \A r : FileAtFault(r)' <=> FileAtFault(r)
  BY <1>1, <1>2 DEF FileAtFault
<1>8. UNCHANGED <<TooManyFiles, ChainTooLong>>
  BY <1>1 DEF TooManyFiles, ChainTooLong
<1>9. QED
  BY <1>1, <1>3, <1>4, <1>5, <1>6, <1>7, <1>8 DEF Earned

LEMMA AllTaken ==
    ASSUME Shape, manifest # NoManifest, Taken(Len(files)), InOrder(Len(files))
    PROVE  /\ DOMAIN verified = Listed
           /\ \A i \in DOMAIN files : verified[files[i].path] = files[i].sha
           /\ \A p \in Listed : verified[p] = ContentOf(p)
           /\ \A n : InOrder(n)
<1>1. DOMAIN files \cap 1..Len(files) = DOMAIN files
  BY ListedArePaths
<1>2. DOMAIN verified = Listed /\ \A i \in DOMAIN files : verified[files[i].path] = files[i].sha
  BY <1>1 DEF Taken, Listed, PathsOf, files
<1>3. \A i \in DOMAIN files : Matches(i) /\ Fits(i)
  BY <1>1 DEF InOrder
<1>4. \A p \in Listed : verified[p] = ContentOf(p)
  BY <1>2, <1>3, ListedArePaths DEF Matches
<1>5. QED
  BY <1>2, <1>3, <1>4 DEF InOrder

(* A step from one stage to the next keeps all of it if the next stage's   *)
(* part of Passed is there.                                                *)
LEMMA GoOn ==
    ASSUME Checked, UNCHANGED <<lax, total, stack, result, Seen>>, stage # "done",
           at' \in Nat \ {0}, black' \subseteq Paths, nextRef' \in [Paths -> Nat \ {0}],
           stage' \in Stages \ {"done"}, Passed'
    PROVE  Checked'
<1>1. TypeOK /\ result = "none" /\ result' = "none"
  BY DEF Checked, TypeOK
<1>2. TypeOK'
  BY <1>1 DEF TypeOK, Seen
<1>3. Chained' /\ total' <= TotalCap
  BY SameSight DEF Checked
<1>4. Earned("none")'
  BY DEF Earned, EarlierStagesPassed, ZipOrManifestAtFault, TextAtFault
<1>5. ContentsAreVerified' /\ RefusalsAreEarned'
  BY <1>1, <1>4 DEF ContentsAreVerified, RefusalsAreEarned
<1>6. QED
  BY <1>2, <1>3, <1>5 DEF Checked

(* A step that ends the call keeps it if the result is earned.             *)
LEMMA EndEarned ==
    ASSUME Checked, UNCHANGED <<bundle, lax, at, verified, total, search>>,
           stage # "done", stage' = "done", result' \in {"ok"} \cup Errors,
           result' = "ok" =>
              /\ InOrder(Len(files))
              /\ DOMAIN verified = Listed
              /\ \A i \in DOMAIN files : verified[files[i].path] = files[i].sha
              /\ ~lax => \A i \in DOMAIN bundle.zip : bundle.zip[i].name \in Listed,
           Earned(result')
    PROVE  Checked'
<1>1. UNCHANGED Seen
  BY DEF Seen, search
<1>2. /\ UNCHANGED <<manifest, files, Listed, lax, bundle, verified, total, stack>>
      /\ (Chained' <=> Chained)
      /\ \A n : InOrder(n)' <=> InOrder(n)
  BY <1>1, SameSight DEF Seen
<1>3. TypeOK'
  BY DEF Checked, TypeOK, search, Stages, Errors
<1>4. Passed'
  BY DEF Passed, AfterManifest, AfterHash
<1>5. ContentsAreVerified'
  BY <1>2 DEF Checked, ContentsAreVerified
<1>6. RefusalsAreEarned'
  BY <1>1, SameCause DEF RefusalsAreEarned
<1>7. QED
  BY <1>2, <1>3, <1>4, <1>5, <1>6 DEF Checked

(* The stages that look at one thing and go on.                            *)
LEMMA PassChecked ==
    ASSUME IInv, Checked, NEW from \in Stages \ {"walk", "conditions", "done"},
           NEW error \in {"none"} \cup Errors, NEW to \in Stages \ {"done"},
           Pass(from, error, to),
           error = "none" => Passed',
           Earned(error)
    PROVE  Checked'
<1>1. UNCHANGED <<bundle, lax, at, verified, total, search>> /\ UNCHANGED Seen /\ stage = from
  BY DEF Pass, search, Seen
<1>2. at \in Nat \ {0} /\ black \subseteq Paths /\ nextRef \in [Paths -> Nat \ {0}]
  BY <1>1 DEF Checked, TypeOK
<1>3. CASE error = "none"
  <2>1. stage' = to /\ UNCHANGED result /\ Passed'
    BY <1>3 DEF Pass
  <2>2. stage # "done" /\ to \in Stages \ {"done"} /\ UNCHANGED <<lax, total, stack, at, black, nextRef>>
    BY <1>1 DEF search
  <2>3. QED
    BY <1>1, <1>2, <2>1, <2>2, GoOn
<1>4. CASE error # "none"
  <2>1. stage' = "done" /\ result' = error /\ error \in Errors
    BY <1>4 DEF Pass, Finish
  <2>2. error # "ok"
    BY <2>1 DEF Errors
  <2>3. QED
    BY <1>1, <2>1, <2>2, EndEarned
<1>5. QED
  BY <1>3, <1>4

LEMMA ErrorTypes ==
    /\ ShapeError(manifest) \in {"none", "UnsupportedFormatVersion", "ManifestInvalid", "PathUnsafe",
                                 "EntryNotInManifest"}
    /\ \A f : HashError(f) \in {"none", "CapExceeded", "FileMissing", "HashMismatch"}
BY DEF ShapeError, HashError

(* The error of verifyManifestShape names a fault of the manifest.         *)
LEMMA ShapeAtFault ==
    ASSUME Shape, manifest # NoManifest PROVE Earned(ShapeError(manifest))
<1> DEFINE error == ShapeError(manifest)
           faulty == FaultyFiles(manifest)
<1>1. files = manifest.files /\ DOMAIN files = 1..Len(files) /\ Len(files) \in Nat
  BY ListedArePaths DEF files
<1>2. faulty \in SUBSET Nat /\ faulty \subseteq DOMAIN files
  BY <1>1 DEF FaultyFiles
<1>3. faulty # {} => Min(faulty) \in faulty
  <2>1. faulty # {} => \E x \in faulty : \A y \in faulty : x <= y
    BY <1>2, HasLeast
  <2> HIDE DEF faulty
  <2>2. QED
    BY <2>1 DEF Min
<1>4. error = "UnsupportedFormatVersion" => manifest.version # 1
  BY DEF ShapeError
<1>5. error = "ManifestInvalid" =>
          files = <<>> \/ \E i, j \in DOMAIN files : i # j /\ Fold(files[i].path) = Fold(files[j].path)
  <2> SUFFICES ASSUME error = "ManifestInvalid", files # <<>>
               PROVE  \E i, j \in DOMAIN files : i # j /\ Fold(files[i].path) = Fold(files[j].path)
    OBVIOUS
  <2>1. faulty # {} /\ files[Min(faulty)].path \notin Unsafe
    BY <1>1 DEF ShapeError
  <2>2. Min(faulty) \in faulty /\ Min(faulty) \in DOMAIN files
    BY <1>2, <1>3, <2>1
  <2>3. PICK j \in 1..(Min(faulty) - 1) : Fold(files[j].path) = Fold(files[Min(faulty)].path)
    BY <1>1, <2>1, <2>2 DEF FaultyFiles
  <2>4. j \in DOMAIN files /\ j # Min(faulty)
    BY <1>1, <2>2, <2>3
  <2>5. QED
    BY <2>2, <2>3, <2>4
<1>6. error = "EntryNotInManifest" => manifest.entry \notin Listed
  BY DEF ShapeError, Listed
<1>7. error = "PathUnsafe" => (Listed \cup {manifest.entry}) \cap Unsafe # {}
  <2> SUFFICES ASSUME error = "PathUnsafe" PROVE (Listed \cup {manifest.entry}) \cap Unsafe # {}
    OBVIOUS
  <2>1. CASE faulty # {}
    <3>1. files[Min(faulty)].path \in Unsafe
      BY <1>1, <2>1 DEF ShapeError
    <3>2. Min(faulty) \in DOMAIN files
      BY <1>2, <1>3, <2>1
    <3>3. files[Min(faulty)].path \in Listed
      BY <3>2, ListedArePaths
    <3>4. QED
      BY <3>1, <3>3
  <2>2. CASE faulty = {}
    BY <2>2 DEF ShapeError
  <2>3. QED
    BY <2>1, <2>2
<1>8. error \in {"none", "UnsupportedFormatVersion", "ManifestInvalid", "PathUnsafe", "EntryNotInManifest"}
  BY ErrorTypes
<1> HIDE DEF error, faulty
<1>9. ZipOrManifestAtFault(error)
  BY <1>4, <1>5, <1>6, <1>7, <1>8 DEF ZipOrManifestAtFault
<1>10. Earned(error)
  BY <1>8, <1>9 DEF Earned, EarlierStagesPassed, TextAtFault
<1>11. QED
  BY <1>10 DEF error

LEMMA OpenZipChecked == ASSUME IInv, Checked, OpenConstrainedZip PROVE Checked'
<1> DEFINE error ==
       IF Len(bundle.zip) + (IF manifest = NoManifest THEN 0 ELSE 1) > MaxFiles THEN "CapExceeded"
       ELSE IF Repeats(bundle.zip, LAMBDA e : Fold(e.name)) THEN "ZipFeatureForbidden"
       ELSE "none"
<1>1. Pass("zip", error, "manifest")
  BY DEF OpenConstrainedZip
<1>2. error \in {"none", "CapExceeded", "ZipFeatureForbidden"}
  OBVIOUS
<1>3. Len(bundle.zip) \in Nat /\ DOMAIN bundle.zip = 1..Len(bundle.zip)
  BY DEF IInv, Shape, IsBundle
<1>4. error = "CapExceeded" => TooManyFiles
  <2>1. MaxFiles \in Nat
    BY CapsAssumption
  <2>2. error = "CapExceeded" =>
            Len(bundle.zip) + (IF manifest = NoManifest THEN 0 ELSE 1) > MaxFiles
    OBVIOUS
  <2> HIDE DEF error
  <2>3. CASE manifest = NoManifest
    <3>1. error = "CapExceeded" => Len(bundle.zip) + 0 > MaxFiles
      BY <2>2, <2>3
    <3>2. QED
      BY <1>3, <2>1, <3>1 DEF TooManyFiles
  <2>4. CASE manifest # NoManifest
    BY <2>2, <2>4 DEF TooManyFiles
  <2>5. QED
    BY <2>3, <2>4
<1>5. error = "ZipFeatureForbidden" =>
          \E i, j \in DOMAIN bundle.zip : i # j /\ Fold(bundle.zip[i].name) = Fold(bundle.zip[j].name)
  <2>1. error = "ZipFeatureForbidden" => Repeats(bundle.zip, LAMBDA e : Fold(e.name))
    OBVIOUS
  <2>2. Repeats(bundle.zip, LAMBDA e : Fold(e.name)) =>
            \E i, j \in DOMAIN bundle.zip :
               i < j /\ Fold(bundle.zip[i].name) = Fold(bundle.zip[j].name)
    BY DEF Repeats
  <2> HIDE DEF error
  <2>3. \A i, j \in DOMAIN bundle.zip : i < j => i # j
    BY <1>3
  <2>4. QED
    BY <2>1, <2>2, <2>3
<1> HIDE DEF error
<1>6. error = "none" => Passed'
  BY <1>1 DEF Pass, Passed, Checked, AfterManifest, AfterHash
<1>7. Earned(error)
  BY <1>2, <1>4, <1>5 DEF Earned, EarlierStagesPassed, ZipOrManifestAtFault, TextAtFault
<1>8. QED
  BY <1>1, <1>2, <1>6, <1>7, PassChecked DEF Stages, Errors

LEMMA ReadManifestChecked == ASSUME IInv, Checked, ReadManifest PROVE Checked'
<1> DEFINE error == IF manifest = NoManifest THEN "ManifestMissing" ELSE ShapeError(manifest)
<1>1. Pass("manifest", error, "extras")
  BY DEF ReadManifest
<1>2. error \in {"none", "ManifestMissing", "UnsupportedFormatVersion", "ManifestInvalid",
                 "PathUnsafe", "EntryNotInManifest"}
  BY ErrorTypes
<1>3. error = "none" => ShapeError(manifest) = "none"
  OBVIOUS
<1>4. Earned(error)
  <2>1. CASE manifest = NoManifest
    BY <2>1 DEF Earned, EarlierStagesPassed, ZipOrManifestAtFault, TextAtFault
  <2>2. CASE manifest # NoManifest
    BY <2>2, ShapeAtFault DEF IInv
  <2>3. QED
    BY <2>1, <2>2
<1> HIDE DEF error
<1>5. error = "none" => Passed'
  BY <1>1, <1>3 DEF Pass, Passed, Checked, AfterManifest, AfterHash, manifest
<1>6. QED
  BY <1>1, <1>2, <1>4, <1>5, PassChecked DEF Stages, Errors

LEMMA CheckExtrasChecked == ASSUME IInv, Checked, CheckExtraEntries PROVE Checked'
<1> DEFINE error == IF ~lax /\ \E i \in DOMAIN bundle.zip : bundle.zip[i].name \notin Listed
                    THEN "FileUnexpected" ELSE "none"
<1>1. Pass("extras", error, "count")
  BY DEF CheckExtraEntries
<1>2. error \in {"none", "FileUnexpected"}
  OBVIOUS
<1>3. error = "none" => (~lax => \A i \in DOMAIN bundle.zip : bundle.zip[i].name \in Listed)
  OBVIOUS
<1>4. error = "FileUnexpected" => ~lax /\ \E i \in DOMAIN bundle.zip : bundle.zip[i].name \notin Listed
  OBVIOUS
<1> HIDE DEF error
<1>5. error = "none" => Passed'
  BY <1>1, <1>3 DEF Pass, Passed, Checked, AfterManifest, AfterHash, manifest, files, Listed
<1>6. Earned(error)
  BY <1>2, <1>4 DEF Earned, EarlierStagesPassed, ZipOrManifestAtFault, TextAtFault
<1>7. QED
  BY <1>1, <1>2, <1>5, <1>6, PassChecked DEF Stages, Errors

LEMMA CountChecked == ASSUME IInv, Checked, CountFiles PROVE Checked'
<1> DEFINE error == IF Len(files) > MaxFiles THEN "CapExceeded" ELSE "none"
<1>1. Pass("count", error, "hash")
  BY DEF CountFiles
<1>2. error \in {"none", "CapExceeded"} /\ (error = "CapExceeded" => Len(files) > MaxFiles)
  OBVIOUS
<1> HIDE DEF error
<1>3. Shape /\ manifest # NoManifest /\ at = 1 /\ total = 0 /\ DOMAIN verified = {}
  BY <1>1 DEF Pass, IInv, Shape, Checked, Passed
<1>4. Taken(0) /\ InOrder(0) /\ SizeUpTo[0] = 0 /\ 1 <= Len(files) + 1
  <2>1. DOMAIN files \cap 1..0 = {} /\ Len(files) \in Nat
    BY <1>3, ListedArePaths
  <2>2. QED
    BY <1>3, <2>1, SizesAddUp DEF Taken, InOrder
<1>5. error = "none" => Passed'
  <2>1. at' = 1 /\ total' = 0 /\ UNCHANGED Seen /\ UNCHANGED <<bundle, lax>>
    BY <1>1, <1>3 DEF Pass, Seen, search
  <2>2. Taken(0)' /\ InOrder(0)' /\ (SizeUpTo[0] = 0)' /\ at' - 1 = 0 /\ UNCHANGED <<files, manifest, Listed>>
    BY <1>4, <2>1, SameSight
  <2>3. ShapeError(manifest)' = ShapeError(manifest)
    BY <2>1, SameFiles
  <2>4. QED
    BY <1>1, <1>4, <2>1, <2>2, <2>3 DEF Pass, Passed, Checked, AfterManifest, AfterHash
<1>6. Earned(error)
  BY <1>2, <1>3 DEF Earned, EarlierStagesPassed, ZipOrManifestAtFault, TextAtFault, TooManyFiles
<1>7. QED
  BY <1>1, <1>2, <1>5, <1>6, PassChecked DEF Stages, Errors

(* The file the digests stop at is the first one at fault, and the cap     *)
(* that is left is the total cap less the files before it.                 *)
LEMMA HashAtFault ==
    ASSUME Shape, manifest # NoManifest, at \in 1..Len(files), total \in Nat, total <= TotalCap,
           total = SizeUpTo[at - 1], InOrder(at - 1), ShapeError(manifest) = "none"
    PROVE  /\ HashError(files[at]) # "none" => Earned(HashError(files[at]))
           /\ HashError(files[at]) = "none" =>
                 /\ Matches(at) /\ Fits(at) /\ ContentOf(files[at].path).size \in Nat
                 /\ total + ContentOf(files[at].path).size = SizeUpTo[at]
<1> DEFINE error == HashError(files[at])
           n == SizeOf(at)
<1>1. n \in Nat /\ SizeUpTo[at] = total + n /\ DOMAIN files = 1..Len(files)
  BY SizesAddUp, ListedArePaths
<1>2. Present(at) => n = ContentOf(files[at].path).size
  BY DEF SizeOf
<1>3. EffectiveCap \in Int /\ EffectiveCap <= PerFileCap /\ EffectiveCap <= TotalCap - total
      /\ (EffectiveCap = PerFileCap \/ EffectiveCap = TotalCap - total)
  BY CapsAssumption DEF EffectiveCap
<1>4. n <= EffectiveCap <=> Fits(at)
  <2>1. n <= EffectiveCap <=> n <= PerFileCap /\ n <= TotalCap - total
    BY <1>1, <1>3, CapsAssumption
  <2>2. n <= TotalCap - total <=> total + n <= TotalCap
    BY <1>1, CapsAssumption
  <2>3. QED
    BY <1>1, <2>1, <2>2 DEF Fits
<1>5. EffectiveCap <= 0 => total = TotalCap
  BY <1>3, CapsAssumption
<1>6. n > EffectiveCap <=> ~(n <= EffectiveCap)
  BY <1>1, <1>3
<1>7. /\ error = "CapExceeded" => SizeUpTo[at - 1] = TotalCap \/ ~Fits(at)
      /\ error = "FileMissing" => ~Present(at)
      /\ error = "HashMismatch" => Present(at) /\ Fits(at) /\ ~Matches(at)
      /\ error = "none" => Present(at) /\ Fits(at) /\ Matches(at)
  BY <1>2, <1>4, <1>5, <1>6 DEF HashError, Present, Matches
<1>8. error \in {"none", "CapExceeded", "FileMissing", "HashMismatch"}
  BY ErrorTypes
<1> HIDE DEF error
<1>9. FileAtFault(error)
  BY <1>1, <1>7 DEF FileAtFault
<1>10. Earned(error)
  BY <1>8, <1>9 DEF Earned, EarlierStagesPassed, ZipOrManifestAtFault, TextAtFault
<1>11. QED
  BY <1>1, <1>2, <1>7, <1>10 DEF error

LEMMA VerifyChecked == ASSUME IInv, Checked, VerifyEntry PROVE Checked'
<1> DEFINE f == files[at]
<1>1. /\ stage = "hash" /\ at <= Len(files) /\ at \in Nat \ {0} /\ manifest # NoManifest
      /\ Shape /\ Taken(at - 1) /\ InOrder(at - 1) /\ total = SizeUpTo[at - 1]
      /\ ShapeError(manifest) = "none" /\ total \in Nat /\ total <= TotalCap
      /\ UNCHANGED <<bundle, lax, search>>
  BY DEF VerifyEntry, IInv, Shape, Checked, TypeOK, Passed, AfterManifest
<1>2. at \in 1..Len(files) /\ at \in DOMAIN files /\ f.path \in Listed /\ f.path \in Paths
  BY <1>1, ListedArePaths
<1>3. CASE HashError(f) # "none"
  <2>1. stage' = "done" /\ result' = HashError(f) /\ UNCHANGED <<at, verified, total>>
    BY <1>3 DEF VerifyEntry, Finish
  <2>2. HashError(f) \in {"CapExceeded", "FileMissing", "HashMismatch"}
    BY <1>3, ErrorTypes
  <2>3. Earned(HashError(f))
    BY <1>1, <1>2, <1>3, HashAtFault
  <2>4. QED
    BY <1>1, <2>1, <2>2, <2>3, EndEarned DEF Errors
<1>4. CASE HashError(f) = "none"
  <2>1. /\ verified' = [p \in DOMAIN verified \cup {f.path} |->
                          IF p = f.path THEN ContentOf(p) ELSE verified[p]]
        /\ total' = total + ContentOf(f.path).size
        /\ at' = at + 1 /\ UNCHANGED <<stage, result>>
    BY <1>4 DEF VerifyEntry
  <2>2. Matches(at) /\ Fits(at) /\ total' = SizeUpTo[at] /\ total' \in Nat
    BY <1>1, <1>2, <1>4, <2>1, HashAtFault
  <2>3. total' <= TotalCap
    BY <2>2 DEF Fits
  <2>4. UNCHANGED <<manifest, files, Listed, SizeUpTo>> /\ \A n : InOrder(n)' <=> InOrder(n)
    BY <1>1, SameFiles
  <2>5. DOMAIN files \cap 1..at = (DOMAIN files \cap 1..(at - 1)) \cup {at} /\ at' - 1 = at
    BY <1>1, <1>2, <2>1
  <2>6. InOrder(at)
    BY <1>1, <2>2, <2>5 DEF InOrder
  <2>7. Taken(at - 1)'
    <3>1. DOMAIN verified' = {files[i].path : i \in DOMAIN files \cap 1..at}
      BY <1>1, <2>1, <2>5 DEF Taken
    <3>2. ASSUME NEW i \in DOMAIN files \cap 1..at PROVE verified'[files[i].path] = files[i].sha
      <4>1. CASE files[i].path = f.path
        <5>1. f.sha = ContentOf(f.path)
          BY <2>2 DEF Matches
        <5>2. i = at \/ i \in DOMAIN files \cap 1..(at - 1)
          BY <2>5
        <5>3. i \in DOMAIN files \cap 1..(at - 1) => files[i].sha = ContentOf(files[i].path)
          BY <1>1 DEF InOrder, Matches
        <5>4. files[i].sha = ContentOf(f.path)
          BY <4>1, <5>1, <5>2, <5>3
        <5>5. QED
          BY <2>1, <4>1, <5>4
      <4>2. CASE files[i].path # f.path
        <5>1. i \in DOMAIN files \cap 1..(at - 1)
          BY <2>5, <4>2
        <5>2. files[i].path \in DOMAIN verified /\ verified[files[i].path] = files[i].sha
          BY <1>1, <5>1 DEF Taken
        <5>3. QED
          BY <2>1, <4>2, <5>2
      <4>3. QED
        BY <4>1, <4>2
    <3>3. QED
      BY <2>4, <2>5, <3>1, <3>2 DEF Taken
  <2>8. TypeOK' /\ stage = "hash" /\ stage' = "hash" /\ result' = "none"
    BY <1>1, <1>2, <2>1, <2>2 DEF Checked, TypeOK, search
  <2>9. Passed'
    <3>1. ShapeError(manifest)' = ShapeError(manifest)
      BY <1>1, SameFiles
    <3>2. at' <= Len(files') + 1 /\ total' = SizeUpTo'[at' - 1]
      <4>1. at' = at + 1 /\ at + 1 <= Len(files) + 1 /\ at' - 1 = at
        BY <1>1, <1>2, <2>1
      <4>2. files' = files /\ SizeUpTo' = SizeUpTo
        BY <2>4
      <4>3. at' <= Len(files') + 1
        BY <4>1, <4>2
      <4>4. (SizeUpTo')[at' - 1] = SizeUpTo[at]
        BY <4>1, <4>2
      <4>5. QED
        BY <2>2, <4>3, <4>4
    <3>3. InOrder(at - 1)'
      <4>1. \A i \in DOMAIN files \cap 1..(at' - 1) : Matches(i) /\ Fits(i)
        BY <2>5, <2>6 DEF InOrder
      <4>2. QED
        BY <1>1, <4>1, SameFiles DEF InOrder
    <3>4. QED
      BY <1>1, <2>4, <2>7, <2>8, <3>1, <3>2, <3>3 DEF Passed, Checked, AfterManifest, AfterHash
  <2>10. Chained'
    BY <1>1 DEF Chained, search, IInv, Shape
  <2>11. Earned("none")'
    BY DEF Earned, EarlierStagesPassed, ZipOrManifestAtFault, TextAtFault
  <2>12. ContentsAreVerified' /\ RefusalsAreEarned'
    BY <2>8, <2>11 DEF ContentsAreVerified, RefusalsAreEarned
  <2>13. QED
    BY <2>3, <2>8, <2>9, <2>10, <2>12 DEF Checked
<1>5. QED
  BY <1>3, <1>4

LEMMA HashesDoneChecked == ASSUME IInv, Checked, HashesDone PROVE Checked'
<1>1. /\ stage = "hash" /\ at > Len(files) /\ stage' = "parse" /\ at' = 1
      /\ UNCHANGED <<bundle, lax, result, verified, total, search>> /\ UNCHANGED Seen
  BY DEF HashesDone, Seen, search
<1>2. /\ Shape /\ manifest # NoManifest /\ at \in Nat \ {0} /\ Taken(at - 1) /\ InOrder(at - 1)
      /\ at <= Len(files) + 1
  BY <1>1 DEF IInv, Shape, Checked, Passed
<1>3. at - 1 = Len(files)
  BY <1>1, <1>2, ListedArePaths
<1>4. UNCHANGED <<manifest, files, Listed>> /\ Taken(Len(files))' /\ InOrder(Len(files))'
  <2>1. UNCHANGED <<manifest, files, Listed>> /\ Taken(Len(files)) /\ InOrder(Len(files))
    BY <1>1, <1>2, <1>3, SameSight
  <2>2. QED
    BY <1>1, <2>1, SameSight DEF Taken, InOrder
<1>5. ShapeError(manifest)' = ShapeError(manifest)
  BY <1>1, SameFiles
<1>6. Passed'
  BY <1>1, <1>4, <1>5 DEF Passed, Checked, AfterManifest, AfterHash
<1>7. black' \subseteq Paths /\ nextRef' \in [Paths -> Nat \ {0}] /\ UNCHANGED <<lax, total, stack>>
  BY <1>1 DEF search, Checked, TypeOK
<1>8. QED
  BY <1>1, <1>6, <1>7, GoOn DEF Stages

(* From one stage after the hashes to the next.                            *)
LEMMA LaterPassed ==
    ASSUME Checked, UNCHANGED Seen, stage \in AfterHash, stage' \in AfterHash,
           stage' # "parse" => AllParse
    PROVE  Passed'
<1>1. UNCHANGED <<bundle, lax, verified>>
  BY DEF Seen
<1>2. UNCHANGED <<manifest, files, Listed, AllParse>> /\ ShapeError(manifest)' = ShapeError(manifest)
  BY <1>1, SameFiles
<1>3. Taken(Len(files)) /\ InOrder(Len(files))
  BY DEF Checked, Passed
<1>4. Taken(Len(files))' /\ InOrder(Len(files))'
  <2>1. \A n : (Taken(n)' <=> Taken(n)) /\ (InOrder(n)' <=> InOrder(n))
    BY SameSight
  <2>2. QED
    BY <1>2, <1>3, <2>1 DEF Taken, InOrder
<1>5. QED
  BY <1>1, <1>2, <1>4 DEF Passed, Checked, AfterManifest, AfterHash

LEMMA ParseChecked == ASSUME IInv, Checked, ParseAllWorkflows PROVE Checked'
<1>1. /\ stage = "parse" /\ Shape /\ manifest # NoManifest /\ Taken(Len(files)) /\ InOrder(Len(files))
      /\ ShapeError(manifest) = "none"
  BY DEF ParseAllWorkflows, IInv, Shape, Checked, Passed, AfterManifest, AfterHash
<1>2. \A p \in Listed : verified[p] = ContentOf(p)
  BY <1>1, AllTaken
<1>3. CASE \A p \in Listed : verified[p].parses
  <2>1. Pass("parse", "none", "refs")
    BY <1>3 DEF ParseAllWorkflows
  <2>2. UNCHANGED Seen /\ stage' = "refs"
    BY <2>1 DEF Pass, Seen, search
  <2>3. AllParse
    BY <1>2, <1>3 DEF AllParse
  <2>4. Passed' /\ Earned("none")
    BY <1>1, <2>2, <2>3, LaterPassed, NotRefused DEF AfterHash
  <2>5. QED
    BY <2>1, <2>4, PassChecked DEF Stages
<1>4. CASE ~\A p \in Listed : verified[p].parses
  <2>1. PICK p \in Listed : /\ ~verified[p].parses
                            /\ Pass("parse", IF p = manifest.entry THEN "EntryParse" ELSE "SubgraphParse", "refs")
    BY <1>4 DEF ParseAllWorkflows
  <2>2. ~ContentOf(p).parses
    BY <1>2, <2>1
  <2> DEFINE error == IF p = manifest.entry THEN "EntryParse" ELSE "SubgraphParse"
  <2>3. /\ error \in {"EntryParse", "SubgraphParse"}
        /\ error = "EntryParse" => ~ContentOf(manifest.entry).parses
        /\ error = "SubgraphParse" => \E q \in Listed \ {manifest.entry} : ~ContentOf(q).parses
        /\ Pass("parse", error, "refs")
    BY <2>1, <2>2
  <2> HIDE DEF error
  <2>4. Earned(error)
    BY <1>1, <2>3 DEF Earned, EarlierStagesPassed, ZipOrManifestAtFault, TextAtFault
  <2>5. QED
    BY <2>3, <2>4, PassChecked DEF Stages, Errors
<1>5. QED
  BY <1>3, <1>4

LEMMA CheckRefsChecked == ASSUME IInv, Checked, CheckRefs PROVE Checked'
<1> DEFINE error == IF \E p \in Listed : Escapes \in TargetsOf(p) THEN "PathUnsafe"
                    ELSE IF \E p \in Listed : ~(TargetsOf(p) \subseteq Listed) THEN "RefEscape" ELSE "none"
<1>1. Pass("refs", error, "walk")
  BY DEF CheckRefs
<1>2. /\ error \in {"none", "PathUnsafe", "RefEscape"}
      /\ error = "PathUnsafe" => \E p \in Listed : Escapes \in TargetsOf(p)
      /\ error = "RefEscape" => ~RefsClosed
  BY DEF RefsClosed
<1> HIDE DEF error
<1>3. InOrder(Len(files)) /\ AllParse /\ stage = "refs" /\ UNCHANGED Seen
  BY <1>1 DEF Pass, Checked, Passed, AfterHash, Seen, search
<1>4. error = "none" => Passed'
  <2> SUFFICES ASSUME error = "none" PROVE Passed'
    OBVIOUS
  <2>1. stage' = "walk"
    BY <1>1 DEF Pass
  <2>2. QED
    BY <1>3, <2>1, LaterPassed DEF AfterHash
<1>5. Earned(error)
  BY <1>2, <1>3 DEF Earned, EarlierStagesPassed, ZipOrManifestAtFault, TextAtFault
<1>6. QED
  BY <1>1, <1>2, <1>4, <1>5, PassChecked DEF Stages, Errors

(* In the search nothing changes but the search.                           *)
LEMMA SearchOn ==
    ASSUME IInv, Checked, stage = "walk", UNCHANGED <<bundle, lax, stage, result, verified, total>>,
           stack' \in Seq(Paths), black' \subseteq Paths, nextRef' \in [Paths -> Nat \ {0}],
           at' \in Nat \ {0}, \A i \in 1..(Len(stack') - 1) : stack'[i + 1] \in TargetsOf(stack'[i])
    PROVE  Checked'
<1>1. /\ UNCHANGED <<manifest, files, Listed, AllParse>> /\ ShapeError(manifest)' = ShapeError(manifest)
      /\ \A n : InOrder(n)' <=> InOrder(n)
  BY SameFiles
<1>2. \A p : TargetsOf(p)' = TargetsOf(p)
  BY DEF TargetsOf, Graph
<1>3. TypeOK' /\ result' = "none"
  BY DEF Checked, TypeOK
<1>4. Taken(Len(files)) /\ InOrder(Len(files))
  BY DEF Checked, Passed, AfterHash
<1>5. Taken(Len(files))' /\ InOrder(Len(files))'
  BY <1>1, <1>4 DEF Taken, InOrder
<1>6. Passed'
  BY <1>1, <1>5 DEF Passed, Checked, AfterManifest, AfterHash
<1>7. Chained'
  BY <1>2 DEF Chained
<1>8. Earned("none")'
  BY DEF Earned, EarlierStagesPassed, ZipOrManifestAtFault, TextAtFault
<1>9. ContentsAreVerified' /\ RefusalsAreEarned'
  BY <1>3, <1>8 DEF ContentsAreVerified, RefusalsAreEarned
<1>10. QED
  BY <1>3, <1>6, <1>7, <1>9 DEF Checked

LEMMA StartChecked == ASSUME IInv, Checked, StartSearch PROVE Checked'
<1> DEFINE root == files[at].path
<1>1. /\ stage = "walk" /\ at <= Len(files) /\ stack' = <<root>> /\ black' = {}
      /\ nextRef' = [nextRef EXCEPT ![root] = 1]
      /\ UNCHANGED <<bundle, lax, stage, result, at, verified, total>>
  BY DEF StartSearch
<1>2. Shape /\ manifest # NoManifest /\ at \in Nat \ {0} /\ nextRef \in [Paths -> Nat \ {0}]
  BY <1>1, WalkFacts
<1>3. root \in Paths
  BY <1>1, <1>2, ListedArePaths
<1>4. stack' \in Seq(Paths) /\ Len(stack') = 1 /\ 1..(Len(stack') - 1) = {}
  BY <1>1, <1>3
<1>5. nextRef' \in [Paths -> Nat \ {0}]
  BY <1>1, <1>2, <1>3
<1>6. QED
  BY <1>1, <1>2, <1>4, <1>5, SearchOn

(* A ref to a gray node closes a cycle: the part of the stack from that    *)
(* node on, in which every node has an edge to the next one.               *)
LEMMA GrayIsCycle ==
    ASSUME stack \in Seq(Listed), stack # <<>>, Chained,
           NEW next \in Gray, next \in TargetsOf(stack[Len(stack)])
    PROVE  ~Acyclic(Listed)
<1> DEFINE n == Len(stack)
<1>1. n \in Nat \ {0} /\ Gray = {stack[k] : k \in 1..n}
  BY DEF Gray, Range
<1>2. PICK m \in 1..n : stack[m] = next
  BY <1>1
<1> DEFINE T == {stack[k] : k \in m..n}
<1>3. T \in SUBSET Listed /\ T # {} /\ next \in T
  BY <1>1, <1>2
<1>4. ASSUME NEW p \in T PROVE TargetsOf(p) \cap T # {}
  <2>1. PICK k \in m..n : p = stack[k]
    OBVIOUS
  <2>2. CASE k = n
    BY <1>3, <2>1, <2>2
  <2>3. CASE k # n
    <3>1. k \in 1..(n - 1) /\ k + 1 \in m..n
      BY <1>1, <2>1, <2>3
    <3>2. stack[k + 1] \in TargetsOf(stack[k])
      BY <3>1 DEF Chained
    <3>3. QED
      BY <2>1, <3>1, <3>2
  <2>4. QED
    BY <2>2, <2>3
<1>5. QED
  BY <1>3, <1>4 DEF Acyclic

LEMMA VisitChecked == ASSUME IInv, Checked, VisitEdge PROVE Checked'
<1> DEFINE n == Len(stack)
           t == stack[n]
           next == Graph(t)[nextRef[t]]
<1>1. /\ stage = "walk" /\ stack # <<>> /\ nextRef[t] <= Len(Graph(t))
      /\ UNCHANGED <<bundle, lax, at, verified, total, black>>
  BY DEF VisitEdge, Top, Last
<1>2. /\ Shape /\ Coloured /\ ClosedIn(Edges, Listed) /\ manifest # NoManifest
      /\ Listed \in SUBSET Paths /\ stack \in Seq(Listed)
      /\ at \in Nat \ {0} /\ nextRef \in [Paths -> Nat \ {0}]
  BY <1>1, WalkFacts
<1>3. n \in Nat \ {0} /\ t \in Listed /\ t \in Paths /\ nextRef[t] \in Nat \ {0}
  BY <1>1, <1>2
<1>4. next \in TargetsOf(t) /\ next \in Listed /\ next \in Paths
  <2>1. next \in Edges[t] /\ Edges[t] = TargetsOf(t)
    BY <1>1, <1>2, <1>3, RefsAreSequences DEF Edges
  <2>2. QED
    BY <1>2, <1>3, <2>1 DEF ClosedIn
<1>5. InOrder(Len(files)) /\ AllParse /\ Chained /\ RefsClosed
  <2>1. InOrder(Len(files)) /\ AllParse /\ Chained
    BY <1>1 DEF Checked, Passed, AfterHash
  <2>2. RefsClosed
    BY <1>2 DEF RefsClosed, ClosedIn, Edges
  <2>3. QED
    BY <2>1, <2>2
<1>6. CASE next \in Gray
  <2>1. stage' = "done" /\ result' = "RefCycle" /\ UNCHANGED <<stack, nextRef>>
    BY <1>6 DEF VisitEdge, Finish, Top, Last
  <2>2. ~Acyclic(Listed)
    BY <1>1, <1>2, <1>4, <1>5, <1>6, GrayIsCycle
  <2>3. Earned("RefCycle")
    BY <1>5, <2>2 DEF Earned, EarlierStagesPassed, ZipOrManifestAtFault, TextAtFault
  <2>4. QED
    BY <1>1, <2>1, <2>3, EndEarned DEF Errors, search
<1>7. CASE next \notin Gray /\ next \in black
  <2>1. nextRef' = [nextRef EXCEPT ![t] = @ + 1] /\ UNCHANGED <<stack, stage, result>>
    BY <1>7 DEF VisitEdge, Top, Last
  <2>2. nextRef' \in [Paths -> Nat \ {0}] /\ stack' \in Seq(Paths) /\ black' \subseteq Paths
    BY <1>1, <1>2, <1>3, <2>1 DEF Checked, TypeOK
  <2>3. QED
    BY <1>1, <1>2, <1>5, <2>1, <2>2, SearchOn DEF Chained
<1>8. CASE next \notin Gray /\ next \notin black /\ n > MaxDepth
  <2>1. stage' = "done" /\ result' = "CapExceeded" /\ UNCHANGED <<stack, nextRef>>
    BY <1>8 DEF VisitEdge, Finish, Top, Last
  <2>2. Earned("CapExceeded")
    BY <1>5, <1>8 DEF Earned, EarlierStagesPassed, ZipOrManifestAtFault, TextAtFault, ChainTooLong, Chained
  <2>3. QED
    BY <1>1, <2>1, <2>2, EndEarned DEF Errors, search
<1>9. CASE next \notin Gray /\ next \notin black /\ ~(n > MaxDepth)
  <2>1. /\ stack' = Append(stack, next)
        /\ nextRef' = [nextRef EXCEPT ![t] = @ + 1, ![next] = 1]
        /\ UNCHANGED <<stage, result>>
    BY <1>9 DEF VisitEdge, Top, Last
  <2>2. nextRef' \in [Paths -> Nat \ {0}] /\ black' \subseteq Paths
    BY <1>1, <1>2, <1>3, <1>4, <2>1 DEF Checked, TypeOK
  <2>3. /\ stack' \in Seq(Paths) /\ Len(stack') = n + 1 /\ stack'[n + 1] = next
        /\ \A k \in 1..n : stack'[k] = stack[k]
    BY <1>2, <1>4, <2>1
  <2>4. ASSUME NEW i \in 1..n PROVE stack'[i + 1] \in TargetsOf(stack'[i])
    BY <1>3, <1>4, <1>5, <2>3 DEF Chained
  <2>5. QED
    BY <1>1, <1>2, <1>3, <2>1, <2>2, <2>3, <2>4, SearchOn
<1>10. QED
  BY <1>6, <1>7, <1>8, <1>9

LEMMA LeaveChecked == ASSUME IInv, Checked, LeaveNode PROVE Checked'
<1> DEFINE n == Len(stack)
<1>1. /\ stage = "walk" /\ stack # <<>> /\ stack' = SubSeq(stack, 1, n - 1)
      /\ black' = black \cup {stack[n]} /\ at' = IF n = 1 THEN at + 1 ELSE at
      /\ UNCHANGED <<bundle, lax, stage, result, verified, total, nextRef>>
  BY DEF LeaveNode, Top, Last, Front
<1>2. stack \in Seq(Paths) /\ at \in Nat \ {0} /\ nextRef \in [Paths -> Nat \ {0}] /\ Chained
      /\ black \subseteq Paths
  BY DEF Checked, TypeOK
<1>3. n \in Nat \ {0} /\ stack[n] \in Paths
  BY <1>1, <1>2
<1>4. /\ stack' \in Seq(Paths) /\ Len(stack') = n - 1
      /\ \A k \in 1..(n - 1) : stack'[k] = stack[k]
  <2>1. \A S, s, m : s \in Seq(S) /\ m \in 0..Len(s) =>
           /\ SubSeq(s, 1, m) \in Seq(S) /\ Len(SubSeq(s, 1, m)) = m
           /\ \A k \in 1..m : SubSeq(s, 1, m)[k] = s[k]
    OBVIOUS
  <2>2. n - 1 \in 0..n /\ stack' = SubSeq(stack, 1, n - 1) /\ stack \in Seq(Paths)
    BY <1>1, <1>2, <1>3
  <2>3. QED
    BY ONLY <2>1, <2>2
<1>5. \A i \in 1..(Len(stack') - 1) : stack'[i + 1] \in TargetsOf(stack'[i])
  <2>1. \A i \in 1..(Len(stack') - 1) : i \in 1..(n - 1) /\ stack'[i + 1] = stack[i + 1] /\ stack'[i] = stack[i]
    BY <1>3, <1>4
  <2>2. QED
    BY <1>2, <2>1 DEF Chained
<1>6. at' \in Nat \ {0} /\ black' \subseteq Paths
  BY <1>1, <1>2, <1>3
<1>7. QED
  BY <1>1, <1>2, <1>4, <1>5, <1>6, SearchOn

LEMMA WalkDoneChecked == ASSUME IInv, Checked, WalkDone PROVE Checked'
<1>1. /\ stage = "walk" /\ stage' = "conditions"
      /\ UNCHANGED <<bundle, lax, result, at, verified, total, search>> /\ UNCHANGED Seen
  BY DEF WalkDone, Pass, Seen, search
<1>2. AllParse
  BY <1>1 DEF Checked, Passed
<1>3. Passed'
  BY <1>1, <1>2, LaterPassed DEF AfterHash
<1>4. /\ UNCHANGED <<lax, total, stack>> /\ at' \in Nat \ {0}
      /\ black' \subseteq Paths /\ nextRef' \in [Paths -> Nat \ {0}]
  BY <1>1 DEF search, Checked, TypeOK
<1>5. QED
  BY <1>1, <1>3, <1>4, GoOn DEF Stages

(* The search is over: the graph is closed and has no cycle.               *)
LEMMA WalkedIsSound ==
    ASSUME IInv, stage = "conditions" PROVE RefsClosed /\ Acyclic(Listed)
<1>1. /\ Shape /\ manifest # NoManifest /\ ClosedIn(Edges, Listed)
      /\ \A p \in Listed : GoodIn(Edges, p)
  BY DEF IInv, Shape, Linked, Walked
<1>2. Listed \in SUBSET Paths
  BY <1>1, ListedArePaths
<1>3. AcyclicIn(Edges, Listed)
  BY <1>1, GoodNodes
<1>4. RefsClosed
  BY <1>1, <1>2 DEF RefsClosed, ClosedIn, Edges
<1>5. Acyclic(Listed)
  BY <1>2, <1>3 DEF AcyclicIn, Acyclic, Edges
<1>6. QED
  BY <1>4, <1>5

LEMMA NormalizeChecked == ASSUME IInv, Checked, NormalizeConditions PROVE Checked'
<1>1. /\ stage = "conditions" /\ stage' = "done"
      /\ result' = IF \A p \in Listed : verified[p].conditions THEN "ok" ELSE "SubgraphParse"
      /\ UNCHANGED <<bundle, lax, at, verified, total, search>>
  BY DEF NormalizeConditions, Finish
<1>2. /\ Shape /\ manifest # NoManifest /\ Taken(Len(files)) /\ InOrder(Len(files)) /\ AllParse
      /\ (~lax => \A i \in DOMAIN bundle.zip : bundle.zip[i].name \in Listed)
  BY <1>1 DEF IInv, Shape, Checked, Passed, AfterManifest, AfterHash
<1>3. /\ DOMAIN verified = Listed /\ \A i \in DOMAIN files : verified[files[i].path] = files[i].sha
      /\ \A p \in Listed : verified[p] = ContentOf(p)
  BY <1>2, AllTaken
<1>4. CASE \A p \in Listed : verified[p].conditions
  <2>1. result' = "ok" /\ Earned("ok")
    BY <1>1, <1>4, NotRefused
  <2>2. QED
    BY <1>1, <1>2, <1>3, <2>1, EndEarned
<1>5. CASE ~\A p \in Listed : verified[p].conditions
  <2>1. result' = "SubgraphParse" /\ \E p \in Listed : ~ContentOf(p).conditions
    BY <1>1, <1>3, <1>5
  <2>2. RefsClosed /\ Acyclic(Listed)
    BY <1>1, WalkedIsSound
  <2>3. Earned("SubgraphParse")
    BY <1>2, <2>1, <2>2 DEF Earned, EarlierStagesPassed, ZipOrManifestAtFault, TextAtFault
  <2>4. QED
    BY <1>1, <2>1, <2>3, EndEarned DEF Errors
<1>6. QED
  BY <1>4, <1>5

LEMMA CancelChecked == ASSUME IInv, Checked, Cancelled PROVE Checked'
<1>1. /\ CanCancel /\ stage \in Stages \ {"walk", "done"} /\ stage' = "done" /\ result' = "Cancelled"
      /\ UNCHANGED <<bundle, lax, at, verified, total, search>>
  BY DEF Cancelled, Finish, Stages
<1>2. stack = <<>>
  BY <1>1 DEF IInv, Shape
<1>3. manifest # NoManifest => InOrder(at - 1)
  <2> SUFFICES ASSUME manifest # NoManifest PROVE InOrder(at - 1)
    OBVIOUS
  <2>1. CASE stage \in {"zip", "manifest", "extras", "count"}
    <3>1. at - 1 = 0
      BY <2>1 DEF Checked, Passed
    <3>2. 1..0 = {}
      OBVIOUS
    <3>3. QED
      BY <3>1, <3>2 DEF InOrder
  <2>2. CASE stage = "hash"
    BY <2>2 DEF Checked, Passed
  <2>3. CASE stage \in AfterHash
    BY <2>3, AllTaken DEF Checked, Passed, IInv
  <2>4. QED
    BY <1>1, <2>1, <2>2, <2>3 DEF Stages, AfterHash
<1>4. Earned("Cancelled")
  BY <1>1, <1>2, <1>3 DEF Earned, EarlierStagesPassed, ZipOrManifestAtFault, TextAtFault
<1>5. QED
  BY <1>1, <1>4, EndEarned DEF Errors, Stages

LEMMA StutterChecked == ASSUME Checked, UNCHANGED vars PROVE Checked'
<1>1. UNCHANGED <<bundle, lax, stage, result, at, verified, total, search>> /\ UNCHANGED Seen
      /\ UNCHANGED <<stack, nextRef, black>>
  BY DEF vars, Seen, search
<1>2. /\ UNCHANGED <<manifest, files, Listed, SizeUpTo, AllParse>>
      /\ (Chained' <=> Chained) /\ \A n : (Taken(n)' <=> Taken(n)) /\ (InOrder(n)' <=> InOrder(n))
  BY <1>1, SameSight
<1>3. TypeOK' /\ total' <= TotalCap
  BY <1>1 DEF Checked, TypeOK
<1>4. ShapeError(manifest)' = ShapeError(manifest)
  BY <1>1, SameFiles
<1>5. Passed'
  BY <1>1, <1>2, <1>4 DEF Checked, Passed, AfterManifest, AfterHash
<1>6. ContentsAreVerified'
  BY <1>1, <1>2 DEF Checked, ContentsAreVerified
<1>7. RefusalsAreEarned'
  BY <1>1, SameCause DEF Checked, RefusalsAreEarned
<1>8. QED
  BY <1>2, <1>3, <1>5, <1>6, <1>7 DEF Checked

LEMMA NextChecked == IInv /\ Checked /\ [Next]_vars => Checked'
<1> SUFFICES ASSUME IInv, Checked, [Next]_vars PROVE Checked'
  OBVIOUS
<1>1. CASE OpenConstrainedZip \/ ReadManifest \/ CheckExtraEntries \/ CountFiles
  BY <1>1, OpenZipChecked, ReadManifestChecked, CheckExtrasChecked, CountChecked
<1>2. CASE VerifyEntry \/ HashesDone
  BY <1>2, VerifyChecked, HashesDoneChecked
<1>3. CASE ParseAllWorkflows \/ CheckRefs
  BY <1>3, ParseChecked, CheckRefsChecked
<1>4. CASE StartSearch \/ VisitEdge
  BY <1>4, StartChecked, VisitChecked
<1>5. CASE LeaveNode \/ WalkDone
  BY <1>5, LeaveChecked, WalkDoneChecked
<1>6. CASE NormalizeConditions \/ Cancelled
  BY <1>6, NormalizeChecked, CancelChecked
<1>7. CASE UNCHANGED vars
  BY <1>7, StutterChecked
<1>8. QED
  BY <1>1, <1>2, <1>3, <1>4, <1>5, <1>6, <1>7 DEF Next

-----------------------------------------------------------------------------
(* The theorems                                                            *)

THEOREM Invariant == Spec => []IInv
<1>1. Init => IInv
  BY InitIInv
<1>2. IInv /\ [Next]_vars => IInv'
  BY NextKeeps
<1>3. QED
  BY <1>1, <1>2, PTL DEF Spec

(* Every ref of an accepted bundle leads to a file of the bundle: nothing  *)
(* after verifyRefsListed (helpers.go:155) changes what it looked at.      *)
THEOREM OpenedRefsAreClosed == Spec => []RefsAreClosed
<1>1. IInv => RefsAreClosed
  <2> SUFFICES ASSUME IInv, result = "ok", NEW p \in Listed PROVE TargetsOf(p) \subseteq Listed
    BY DEF RefsAreClosed
  <2>1. ClosedIn(Edges, Listed) /\ Listed \in SUBSET Paths
    BY ListedArePaths DEF IInv, Linked, Shape
  <2>2. QED
    BY <2>1 DEF ClosedIn, Edges
<1>2. QED
  BY <1>1, Invariant, PTL

(* No accepted bundle has a cycle of refs (helpers.go:111), for every ref  *)
(* graph and every order of the refs.                                      *)
THEOREM OpenedRefsAreAcyclic == Spec => []RefsAreAcyclic
<1>1. IInv => RefsAreAcyclic
  <2> SUFFICES ASSUME IInv, result = "ok" PROVE Acyclic(Listed)
    BY DEF RefsAreAcyclic
  <2>1. Listed \in SUBSET Paths /\ \A p \in Listed : GoodIn(Edges, p)
    BY ListedArePaths DEF IInv, Walked, Shape
  <2>2. AcyclicIn(Edges, Listed)
    BY <2>1, GoodNodes
  <2>3. QED
    BY <2>1, <2>2 DEF AcyclicIn, Acyclic, Edges
<1>2. QED
  BY <1>1, Invariant, PTL

(* Whatever the stages saw to still holds when the call returns.           *)
THEOREM StagesHold == Spec => []Checked
<1>1. Init => IInv /\ Checked
  BY InitIInv, InitChecked
<1>2. IInv /\ Checked /\ [Next]_vars => IInv' /\ Checked'
  BY NextKeeps, NextChecked
<1>3. QED
  BY <1>1, <1>2, PTL DEF Spec

(* The state of the call keeps its types: Open returns "ok" or one of its  *)
(* errors, once, and the search only ever looks at paths of the bundle.    *)
THEOREM OpenTypes == Spec => []TypeOK
<1>1. Checked => TypeOK
  BY DEF Checked
<1>2. QED
  BY <1>1, StagesHold, PTL

(* What Open returns without an error is what the manifest promises: each  *)
(* file is in the zip with its digest and within its cap, their sizes add  *)
(* up to no more than the total one (helpers.go:100), and in strict mode   *)
(* there are no others.                                                    *)
THEOREM OpenedIsVerified == Spec => []ContentsAreVerified
<1>1. Checked => ContentsAreVerified
  BY DEF Checked
<1>2. QED
  BY <1>1, StagesHold, PTL

(* No call is refused for a fault the bundle does not have: a zip or a     *)
(* manifest out of shape; the first file in the manifest's order that is   *)
(* missing, differs or does not fit what the files before it have left; a  *)
(* text or a condition that does not parse; a ref that leads out of the    *)
(* bundle, back to where it came from, or through a chain that is too long *)
(* (zipio.go:151, helpers.go:100, resolve.go:216).                         *)
THEOREM RefusedForReason == Spec => []RefusalsAreEarned
<1>1. Checked => RefusalsAreEarned
  BY DEF Checked
<1>2. QED
  BY <1>1, StagesHold, PTL

=============================================================================
