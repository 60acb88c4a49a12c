--------------------------- MODULE EntityOperations ---------------------------
(***************************************************************************)
(* Merging two knowledge entities, reversing a merge and splitting one     *)
(* again (knowledge/entity_operations.py), while relationships are created *)
(* and invalidated (knowledge/relationships.py and _mutations.py).  A      *)
(* merge redirects its source and moves the source's aliases and active    *)
(* relationships to its target, or invalidates what the target already     *)
(* has; its record says which, for the reversal.                           *)
(*                                                                         *)
(* A request locks the rows of both entities, reads, and writes and        *)
(* commits in a later step.  Relationship rows are not locked by a merge's *)
(* read.  All relationships are of one type, and every pair of entities is *)
(* a confirmed candidate.                                                  *)
(***************************************************************************)
EXTENDS Naturals, FiniteSets

CONSTANTS
  Entity, Edge, Alias,
  Curator,         \* places for requests in flight
  MaxOperation,    \* bound: merges made
  NoCuration

ASSUME EntityAssumption ==
  /\ MaxOperation \in Nat
  /\ NoCuration \notin Entity

VARIABLES
  redirected,  \* pkos_nodes whose status is 'redirected'
  ends,        \* pkos_edges: source and target of each relationship
  edgeStatus,  \* 'active' or 'invalidated'; "none" before it is created
  aliasOf,     \* entity_aliases.entity_id
  operation,   \* entity_operations: the merges in the order of their commits
  dated,       \* of each relationship, the merges an event of it is dated after
  curating,    \* the request each place serves, with what it has read
  withdrawn    \* history: the relationships that a user invalidated

entityVars == <<redirected, ends, edgeStatus, aliasOf, operation, dated, curating, withdrawn>>
graphVars == <<redirected, ends, edgeStatus, aliasOf, operation>>

Operation == 1 .. MaxOperation
Nowhere == <<>>
NotMade == [status |-> "none"]
Merge == [status : {"active", "reversed", "split"}, source : Entity, target : Entity,
          aliases : SUBSET Alias, rehomed : SUBSET Edge, invalidated : SUBSET Edge]
Curation ==
       [op : {"merge"}, source : Entity, target : Entity, from : UNION {[es -> Entity \X Entity] : es \in SUBSET Edge}]
  \cup [op : {"reverse"}, of : Operation]
  \cup [op : {"split"}, of : Operation, reassigned : SUBSET Edge]

EntityTypeOK ==
  /\ redirected \subseteq Entity
  /\ ends \in [Edge -> (Entity \X Entity) \cup {Nowhere}]
  /\ edgeStatus \in [Edge -> {"none", "active", "invalidated"}]
  /\ aliasOf \in [Alias -> Entity]
  /\ operation \in [Operation -> Merge \cup {NotMade}]
  /\ dated \in [Edge -> SUBSET Operation]
  /\ curating \in [Curator -> Curation \cup {NoCuration}]
  /\ withdrawn \subseteq Edge

EntityInit ==
  /\ redirected = {}
  /\ ends = [e \in Edge |-> Nowhere]
  /\ edgeStatus = [e \in Edge |-> "none"]
  /\ aliasOf \in [Alias -> Entity]
  /\ operation = [o \in Operation |-> NotMade]
  /\ dated = [e \in Edge |-> {}]
  /\ curating = [c \in Curator |-> NoCuration]
  /\ withdrawn = {}

-----------------------------------------------------------------------------
Made == {o \in Operation : operation[o] # NotMade}
Live == {e \in Edge : edgeStatus[e] = "active"}
Touches(e, n) == n \in {ends[e][1], ends[e][2]}
Renamed(pair, a, b) == <<IF pair[1] = a THEN b ELSE pair[1], IF pair[2] = a THEN b ELSE pair[2]>>

\* FOR UPDATE on the operation and on both its entities (_lock_entity).
LockedEntities(c) ==
  CASE curating[c] = NoCuration -> {}
    [] curating[c] # NoCuration /\ curating[c].op = "merge" -> {curating[c].source, curating[c].target}
    [] OTHER -> {operation[curating[c].of].source, operation[curating[c].of].target}
EntitiesFree(ns) == \A c \in Curator : LockedEntities(c) \cap ns = {}

Undertake(c, request) ==
  /\ curating[c] = NoCuration
  /\ curating' = [curating EXCEPT ![c] = request]
  /\ UNCHANGED <<graphVars, dated, withdrawn>>
Undertakes(c, op) == curating[c] # NoCuration /\ curating[c].op = op
Release(c) == curating' = [curating EXCEPT ![c] = NoCuration]
GiveUpCuration(c) ==
  /\ curating[c] # NoCuration
  /\ Release(c)
  /\ UNCHANGED <<graphVars, dated, withdrawn>>

-----------------------------------------------------------------------------
\* Mutant: only the entity that is merged away must not be redirected.
CheckMergeSource(c, source, target) ==
  /\ source # target
  /\ EntitiesFree({source, target})
  /\ source \notin redirected
  /\ Undertake(c, [op |-> "merge", source |-> source, target |-> target,
                   from |-> [e \in {f \in Live : Touches(f, source)} |-> ends[e]]])

\* merge_entities, up to the read of _rehome_edges.
CheckMerge(c, source, target) ==
  /\ source # target
  /\ EntitiesFree({source, target})
  /\ {source, target} \cap redirected = {}
  /\ Undertake(c, [op |-> "merge", source |-> source, target |-> target,
                   from |-> [e \in {f \in Live : Touches(f, source)} |-> ends[e]]])

\* What becomes of the relationships read: of those that would be equal one
\* is kept, unless the target has it, and none that would relate the target
\* to itself.  The places they are moved to follow from what was read.
Read(m) == DOMAIN m.from
Destination(m, e) == Renamed(m.from[e], m.source, m.target)
Degenerate(m, e) == Destination(m, e)[1] = Destination(m, e)[2]
OfTarget(m, e) == {f \in Live \ Read(m) : ends[f] = Destination(m, e)}
Rehomable(m) == {e \in Read(m) : ~Degenerate(m, e) /\ OfTarget(m, e) = {}}
\* one_or_none fails the merge where the target has two that are equal.
Ambiguous(m) == \E e \in Read(m) : ~Degenerate(m, e) /\ Cardinality(OfTarget(m, e)) > 1
OneOfEach(m, kept) ==
  /\ \A e \in Rehomable(m) : \E f \in kept : Destination(m, e) = Destination(m, f)
  /\ \A e, f \in kept : Destination(m, e) = Destination(m, f) => e = f

CommitMerge(c, o, kept) ==
  /\ Undertakes(c, "merge")
  /\ o \notin Made /\ \A earlier \in Operation : earlier < o => earlier \in Made
  /\ LET m == curating[c]
         aliases == {a \in Alias : aliasOf[a] = m.source}
     IN /\ ~Ambiguous(m)
        /\ kept \subseteq Rehomable(m)
        /\ OneOfEach(m, kept)
        /\ redirected' = redirected \cup {m.source}
        /\ ends' = [e \in Edge |-> IF e \in kept THEN Destination(m, e) ELSE ends[e]]
        /\ edgeStatus' = [e \in Edge |-> IF e \in Read(m) \ kept THEN "invalidated" ELSE edgeStatus[e]]
        /\ aliasOf' = [a \in Alias |-> IF a \in aliases THEN m.target ELSE aliasOf[a]]
        /\ operation' = [operation EXCEPT ![o] =
             [status |-> "active", source |-> m.source, target |-> m.target,
              aliases |-> aliases, rehomed |-> kept, invalidated |-> Read(m) \ kept]]
  /\ Release(c)
  /\ UNCHANGED <<dated, withdrawn>>

\* _has_post_merge_dependent_activity, of which a later claim about the target
\* or change of it is another reason to refuse, and _rehomed_state_still_matches.
Undisturbed(o) ==
  \A e \in Edge : edgeStatus[e] # "none" /\ Touches(e, operation[o].target) => o \notin dated[e]
AsLeft(o) ==
  /\ \A a \in operation[o].aliases : aliasOf[a] = operation[o].target
  /\ \A e \in operation[o].rehomed : Touches(e, operation[o].target)
  /\ \A e \in operation[o].invalidated : edgeStatus[e] = "invalidated"

OperationFree(o) == \A c \in Curator : curating[c] # NoCuration /\ curating[c].op # "merge" => curating[c].of # o
Reversible(o) ==
  /\ operation[o].status = "active"
  /\ OperationFree(o)
  /\ EntitiesFree({operation[o].source, operation[o].target})
  /\ operation[o].source \in redirected

\* reverse_operation
CheckReverse(c, o) ==
  /\ o \in Made
  /\ Reversible(o)
  /\ Undisturbed(o)
  /\ AsLeft(o)
  /\ Undertake(c, [op |-> "reverse", of |-> o])
\* Mutant: what the merge invalidated stays so.
CommitReverseMoves(c) ==
  /\ Undertakes(c, "reverse")
  /\ LET o == curating[c].of
         m == operation[o]
     IN /\ redirected' = redirected \ {m.source}
        /\ ends' = [e \in Edge |-> IF e \in m.rehomed THEN Renamed(ends[e], m.target, m.source) ELSE ends[e]]
        /\ aliasOf' = [a \in Alias |-> IF a \in m.aliases THEN m.source ELSE aliasOf[a]]
        /\ operation' = [operation EXCEPT ![o].status = "reversed"]
  /\ Release(c)
  /\ UNCHANGED <<edgeStatus, dated, withdrawn>>

CommitReverse(c) ==
  /\ Undertakes(c, "reverse")
  /\ LET o == curating[c].of
         m == operation[o]
     IN /\ redirected' = redirected \ {m.source}
        /\ ends' = [e \in Edge |-> IF e \in m.rehomed THEN Renamed(ends[e], m.target, m.source) ELSE ends[e]]
        /\ edgeStatus' = [e \in Edge |-> IF e \in m.invalidated THEN "active" ELSE edgeStatus[e]]
        /\ aliasOf' = [a \in Alias |-> IF a \in m.aliases THEN m.source ELSE aliasOf[a]]
        /\ operation' = [operation EXCEPT ![o].status = "reversed"]
        /\ withdrawn' = withdrawn \ m.invalidated
  /\ Release(c)
  /\ UNCHANGED dated

\* split_operation: the relationships it moves are named by the caller, and
\* locked; aliases stay, and so does what the merge invalidated.
CheckSplit(c, o, reassigned) ==
  /\ o \in Made
  /\ Reversible(o)
  /\ \A e \in reassigned : edgeStatus[e] # "none" /\ Touches(e, operation[o].target)
  /\ Undertake(c, [op |-> "split", of |-> o, reassigned |-> reassigned])
EdgesFree(es) == \A c \in Curator : Undertakes(c, "split") => curating[c].reassigned \cap es = {}
CommitSplit(c) ==
  /\ Undertakes(c, "split")
  /\ LET o == curating[c].of
         m == operation[o]
     IN /\ redirected' = redirected \ {m.source}
        /\ ends' = [e \in Edge |-> IF e \in curating[c].reassigned THEN Renamed(ends[e], m.target, m.source) ELSE ends[e]]
        /\ operation' = [operation EXCEPT ![o].status = "split"]
  /\ Release(c)
  /\ UNCHANGED <<edgeStatus, aliasOf, dated, withdrawn>>

-----------------------------------------------------------------------------
\* An event and a merge are dated when their requests arrive, before either has a
\* lock, so that an event that commits after a merge may be dated before it.  (One
\* that commits first and is dated later refuses reversals only, and is left out;
\* a merge that was undone is not dated against again.)
Dates(e) ==
  \E past \in SUBSET {o \in Made : operation[o].status = "active"} :
    dated' = [dated EXCEPT ![e] = @ \cup past]

\* create_relationship, whose locks of both entities a merge waits for.
CreateRelationship(e, a, b) ==
  /\ edgeStatus[e] = "none"
  /\ a # b
  /\ EntitiesFree({a, b})
  /\ {a, b} \cap redirected = {}
  /\ ends' = [ends EXCEPT ![e] = <<a, b>>]
  /\ edgeStatus' = [edgeStatus EXCEPT ![e] = "active"]
  /\ Dates(e)
  /\ UNCHANGED <<redirected, aliasOf, operation, curating, withdrawn>>
InvalidateRelationship(e) ==
  /\ edgeStatus[e] = "active"
  /\ EdgesFree({e})
  /\ edgeStatus' = [edgeStatus EXCEPT ![e] = "invalidated"]
  /\ Dates(e)
  /\ withdrawn' = withdrawn \cup {e}
  /\ UNCHANGED <<redirected, ends, aliasOf, operation, curating>>

EntityNext ==
  \/ \E c \in Curator :
       \/ \E a, b \in Entity : CheckMerge(c, a, b)
       \/ \E o \in Operation :
            \/ \E kept \in SUBSET Edge : CommitMerge(c, o, kept)
            \/ CheckReverse(c, o)
            \/ \E es \in SUBSET Edge : CheckSplit(c, o, es)
       \/ CommitReverse(c) \/ CommitSplit(c) \/ GiveUpCuration(c)
  \/ \E e \in Edge :
       \/ \E a, b \in Entity : CreateRelationship(e, a, b)
       \/ InvalidateRelationship(e)

EntitySpec == EntityInit /\ [][EntityNext]_entityVars

-----------------------------------------------------------------------------
(* No entity is related to itself (create_relationship and a merge refuse  *)
(* to make such a relationship), through whatever merges, reversals and    *)
(* splits its ends have gone.                                              *)
NoSelfRelationship == \A e \in Live : ends[e][1] # ends[e][2]

(* What a merge takes out of the graph is never lost: an invalidated       *)
(* relationship that no user invalidated is in the record of a merge that  *)
(* can still give it back (or was split, which leaves it).                 *)
NothingLost ==
  \A e \in Edge \ withdrawn :
    edgeStatus[e] = "invalidated" =>
      \E o \in Made : operation[o].status \in {"active", "split"} /\ e \in operation[o].invalidated

(* An alias names an entity that is still one, not a redirected entity,    *)
(* however merges are chained and in whatever order they are reversed or   *)
(* split.                                                                  *)
AliasesSurvive == \A a \in Alias : aliasOf[a] \notin redirected
=============================================================================
