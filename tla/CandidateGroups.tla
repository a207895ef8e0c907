-------------------------- MODULE CandidateGroups --------------------------
(***************************************************************************)
(* How the candidates of a metadata lookup become the titles a user        *)
(* chooses from: _merge_lookup_candidates of api/routes_metadata.py.       *)
(* Candidates come in the order of their ranks, which is the order in      *)
(* which the providers answered.  Those that share an id are one title;    *)
(* a title only anime sites know is joined to the one other title of its   *)
(* name and year.                                                          *)
(***************************************************************************)
EXTENDS Integers, Sequences, FiniteSets, SequencesExt, Relation

CONSTANTS
    Kinds, Values, \* of ids: imdb, tmdb, tvdb, ...
    Names,
    Candidate,     \* what providers may answer
    MaxCandidates  \* bound

Ids == Kinds \X Values

\* own is the id of the provider, others those it names.
CandidateAssumption ==
    /\ Candidate \subseteq [own : Ids, others : SUBSET Ids, name : Names, year : BOOLEAN, anime : BOOLEAN]
    /\ \A c \in Candidate : \A i, j \in c.others : i[1] = j[1] => i = j
    /\ MaxCandidates \in Nat

VARIABLE candidates \* by rank

TypeOK == candidates \in Seq(Candidate) /\ Len(candidates) <= MaxCandidates

Init == candidates = <<>>

\* A provider's answer.
Add(c) == Len(candidates) < MaxCandidates /\ candidates' = Append(candidates, c)

Next == \E c \in Candidate : Add(c)

Spec == Init /\ [][Next]_candidates

-----------------------------------------------------------------------------

\* _candidate_ids: one id of each kind, and what a provider names comes before its own.
Keys(c) == c.others \cup {i \in {c.own} : \A j \in c.others : i[1] # j[1]}

\* _init_candidate_group.
NewGroup(i) ==
    LET c == candidates[i]
    IN  [members |-> {i}, ids |-> Keys(c), name |-> c.name, year |-> c.year, anime |-> c.anime, rank |-> i]

\* _merge_group_data, _add_candidate_to_group: what the first lacks is taken from the other.
Joined(g, h) ==
    [g EXCEPT !.members = @ \cup h.members, !.ids = @ \cup h.ids, !.year = @ \/ h.year, !.anime = @ \/ h.anime]

ByRank(G) == SetToSortSeq(G, LAMBDA g, h : g.rank < h.rank)

\* Mutant: groups a candidate links are left apart.
AddedToFirst(G, i) ==
    LET matched == {g \in G : g.ids \cap Keys(candidates[i]) # {}}
    IN  IF matched = {} THEN G \cup {NewGroup(i)}
        ELSE LET g == ByRank(matched)[1] IN (G \ {g}) \cup {Joined(g, NewGroup(i))}

Added(G, i) ==
    LET matched == {g \in G : g.ids \cap Keys(candidates[i]) # {}}
    IN  IF matched = {} THEN G \cup {NewGroup(i)}
        ELSE (G \ matched) \cup {Joined(FoldLeft(Joined, ByRank(matched)[1], Tail(ByRank(matched))), NewGroup(i))}

ById == FoldLeft(Added, {}, [i \in 1 .. Len(candidates) |-> i])

\* The title key of a group needs a year.
Twins(g, h) == g.year /\ h.year /\ g.name = h.name

\* _merge_anime_groups.
Target(g, G) ==
    LET named == {h \in G : ~h.anime /\ Twins(g, h)}
    IN  IF g.anime /\ Cardinality(named) = 1 THEN named ELSE {}

Groups ==
    LET G == ById
        absorbed == {g \in G : Target(g, G) # {}}
    IN  {FoldLeft(Joined, h, ByRank({g \in absorbed : Target(g, G) = {h}})) : h \in G \ absorbed}

-----------------------------------------------------------------------------
(* OneGroupPerTitle: whatever the order of the answers, candidates linked  *)
(* by ids, directly or by way of others, are one entry of the list, and    *)
(* those that are not are two, unless one is of a title only anime sites   *)
(* gave.                                                                   *)
Ranks == 1 .. Len(candidates)
Linked == TransitiveClosure([p \in Ranks \X Ranks |->
              Keys(candidates[p[1]]) \cap Keys(candidates[p[2]]) # {} \/ p[1] = p[2]], Ranks)
OneGroupPerTitle ==
    LET together == {g.members : g \in Groups}
        linked == Linked
        byAnime == {i \in Ranks : \E j \in Ranks : linked[i, j] /\ candidates[j].anime}
    IN  /\ UNION together = Ranks
        /\ \A i, j \in Ranks :
               /\ linked[i, j] => \E T \in together : {i, j} \subseteq T
               /\ (\E T \in together : {i, j} \subseteq T) => linked[i, j] \/ {i, j} \cap byAnime # {}
=============================================================================
