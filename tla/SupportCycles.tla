------------------------------ MODULE SupportCycles ------------------------------
(***************************************************************************)
(* supportCycleWarnings of src/public-cli.js: the depth-first search that  *)
(* `kdna validate --system` makes over the support relations of an asset.  *)
(* A judgment is a number, ordered as the code orders ids; an edge goes    *)
(* from supporter to claim, and one pair may be related twice.  The        *)
(* relations of a judgment are followed in the order of the asset, which   *)
(* is any order.                                                           *)
(***************************************************************************)
EXTENDS Naturals, Sequences, FiniteSets, SequencesExt

CONSTANT Node

ASSUME NodeAssumption == Node \subseteq Nat /\ IsFiniteSet(Node)

VARIABLES
  edges,     \* the support edges
  twice,     \* at most one of them, recorded by two relations
  roots,     \* the keys of `adjacency` not looked at yet
  colour,    \* `state`: 0 not visited, 1 on the stack, 2 left
  stack,     \* the path from the root
  todo,      \* todo[i]: the edges of stack[i] not followed yet, as <<target, relation>>
  warnings   \* the cycles warned about, each as the sequence of its judgments

cycleVars == <<edges, twice, roots, colour, stack, todo, warnings>>

Targets(n) == {t \in Node : <<n, t>> \in edges}

Relations(n) == {r \in Targets(n) \X {1, 2} : r[2] = 1 \/ <<n, r[1]>> \in twice}

\* Mutant of Roots: the search starts from judgments nothing supports.
RootsUnsupported == {n \in Node : Targets(n) # {} /\ ~\E s \in Node : n \in Targets(s)}

Roots == {n \in Node : Targets(n) # {}}

SearchInit ==
  /\ edges \in SUBSET (Node \X Node)
  /\ twice \in {{}} \union {{e} : e \in edges}
  /\ roots = Roots
  /\ colour = [n \in Node |-> 0]
  /\ stack = <<>> /\ todo = <<>> /\ warnings = <<>>

--------------------------------------------------------------------------------

\* Mutant of CycleTo: the whole path is taken for the cycle.
CycleToAll(t) == stack

\* stack.slice(stack.indexOf(edge.to))
CycleTo(t) == SubSeq(stack, SelectInSeq(stack, LAMBDA n : n = t), Len(stack))

\* The smallest judgment leads.
Rotated(cycle) ==
  LET pivot == SelectInSeq(cycle, LAMBDA n : n = Min(ToSet(cycle)))
  IN SubSeq(cycle, pivot, Len(cycle)) \o SubSeq(cycle, 1, pivot - 1)

\* Mutant of Warned: the cycles reported before are not remembered.
WarnedAgain(cycle) == Append(warnings, cycle)

\* if (!reported.has(key))
Warned(cycle) == IF Contains(warnings, cycle) THEN warnings ELSE Append(warnings, cycle)

Enter(n, rest) ==
  /\ colour' = [colour EXCEPT ![n] = 1]
  /\ stack' = Append(stack, n)
  /\ todo' = Append(rest, Relations(n))
  /\ UNCHANGED <<edges, twice, warnings>>

\* for (const id of [...adjacency.keys()].sort()) if (!state.has(id)) visit(id)
NextRoot ==
  /\ stack = <<>> /\ roots # {}
  /\ LET r == Min(roots) IN
       /\ roots' = roots \ {r}
       /\ IF colour[r] = 0 THEN Enter(r, todo)
          ELSE UNCHANGED <<edges, twice, colour, stack, todo, warnings>>

\* Mutant of Rest: an edge back into the path is followed again.
RestAgain(r) == IF colour[r[1]] = 1 THEN todo ELSE [todo EXCEPT ![Len(todo)] = @ \ {r}]

Rest(r) == [todo EXCEPT ![Len(todo)] = @ \ {r}]

Follow ==
  /\ stack # <<>>
  /\ \E r \in Last(todo) :
       \/ /\ colour[r[1]] = 1
          /\ warnings' = Warned(Rotated(CycleTo(r[1])))
          /\ todo' = Rest(r) /\ UNCHANGED <<edges, twice, colour, stack>>
       \/ colour[r[1]] = 0 /\ Enter(r[1], Rest(r))
       \/ colour[r[1]] = 2 /\ todo' = Rest(r) /\ UNCHANGED <<edges, twice, colour, stack, warnings>>
  /\ UNCHANGED roots

\* Mutant of Leave: the judgment left stays marked as on the path.
LeaveMarked ==
  /\ stack # <<>> /\ Last(todo) = {}
  /\ stack' = Front(stack) /\ todo' = Front(todo)
  /\ UNCHANGED <<edges, twice, roots, colour, warnings>>

Leave ==
  /\ stack # <<>> /\ Last(todo) = {}
  /\ colour' = [colour EXCEPT ![Last(stack)] = 2]
  /\ stack' = Front(stack) /\ todo' = Front(todo)
  /\ UNCHANGED <<edges, twice, roots, warnings>>

Searched == roots = {} /\ stack = <<>>

SearchEnded == Searched /\ UNCHANGED cycleVars

SearchNext == NextRoot \/ Follow \/ Leave \/ SearchEnded

SearchSpec == SearchInit /\ [][SearchNext]_cycleVars

--------------------------------------------------------------------------------
(* Properties.                                                                 *)

\* The judgments marked 1 are those on the stack, each once, and the stack is a path of support.
SearchInv ==
  /\ edges \subseteq Node \X Node /\ roots \subseteq Node /\ colour \in [Node -> 0..2]
  /\ stack \in Seq(Node) /\ IsInjective(stack)
  /\ todo \in Seq(SUBSET (Node \X {1, 2})) /\ Len(todo) = Len(stack)
  /\ ToSet(stack) = {n \in Node : colour[n] = 1}
  /\ \A i \in 1..(Len(stack) - 1) : stack[i + 1] \in Targets(stack[i])
  /\ \A i \in DOMAIN todo : todo[i] \subseteq Relations(stack[i])

\* The judgments of a cycle are distinct, each supports the next and the last supports the first.
IsCycle(cycle) ==
  /\ cycle \in Seq(Node) /\ cycle # <<>> /\ IsInjective(cycle)
  /\ \A i \in 1..(Len(cycle) - 1) : cycle[i + 1] \in Targets(cycle[i])
  /\ cycle[1] \in Targets(Last(cycle))

\* Every warning names a real cycle.
CyclesAreReal == \A cycle \in ToSet(warnings) : IsCycle(cycle)

\* "one cycle is one warning regardless of where the traversal entered it", also when two relations
\* record one support.
OneCycleOneWarning ==
  \A i, j \in DOMAIN warnings : \A k \in DOMAIN warnings[i] :
    LET a == warnings[i] IN
    warnings[j] = SubSeq(a, k, Len(a)) \o SubSeq(a, 1, k - 1) => i = j

Closed(S) == \A n \in S : Targets(n) \subseteq S

\* n supports m, itself or through others: m is in every closed set that what n supports is in.
Supports(n, m) == \A S \in SUBSET Node : Targets(n) \subseteq S /\ Closed(S) => m \in S

InOneCircle(n, m) == Supports(n, m) /\ Supports(m, n)

Noticed(n) == \E cycle \in ToSet(warnings) : \A m \in ToSet(cycle) : InOneCircle(n, m)

\* Not every cycle is listed, but none escapes notice: whoever rests on itself is in one component
\* with a cycle that is listed, whatever the order of the relations in the asset.
EveryCircleIsNoticed == Searched => \A n \in Node : Supports(n, n) => Noticed(n)

\* What is reported: real cycles, each once, and no circle is passed over.
WarningsAreTheCycles == SearchInv /\ CyclesAreReal /\ OneCycleOneWarning /\ EveryCircleIsNoticed

\* What is left to do: roots to try, judgments to enter with their relations, relations to follow and
\* judgments to leave.
Work ==
  LET count(S, f(_)) == FoldSet(LAMBDA x, sum : sum + f(x), 0, S) IN
  Cardinality(roots) + Len(stack) + count(DOMAIN todo, LAMBDA i : Cardinality(todo[i]))
    + count({n \in Node : colour[n] = 0}, LAMBDA n : Cardinality(Relations(n)) + 1)

\* Every step leaves less to do, so the search ends on every graph.
SearchAdvances == [][Work' < Work]_cycleVars
================================================================================
