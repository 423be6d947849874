-------------------------------- MODULE List --------------------------------
(***************************************************************************)
(* The linked lists of kernel/list.c against the sequences they stand for. *)
(*                                                                         *)
(* Lists are intrusive: an element is its links, and is on one list at     *)
(* most.  Nothing clears the links of one that has left its list.  The     *)
(* users (lock.wait_list, child_thread_list, a dentry's file_elems) append *)
(* what is on no list and pop only what is not empty; the model does so.   *)
(***************************************************************************)
EXTENDS Integers, Sequences, SequencesExt, FiniteSets

CONSTANTS
  Lists, Elems,
  HeadOf(_), TailOf(_),   \* the two ends of a list, which are no elements
  NoLink                  \* the null pointer

ListEnds == {HeadOf(l) : l \in Lists} \cup {TailOf(l) : l \in Lists}

ASSUME ListAssumption ==
  /\ IsFiniteSet(Elems)
  /\ \A l, m \in Lists :
       /\ HeadOf(l) # TailOf(m)
       /\ l # m => HeadOf(l) # HeadOf(m) /\ TailOf(l) # TailOf(m)
  /\ Elems \cap ListEnds = {} /\ NoLink \notin Elems \cup ListEnds

VARIABLES
  next, prev,   \* the links of the ends and of the elements
  contents      \* history: the elements put on a list and not taken off it

listVars == <<next, prev, contents>>

OnList(l) == {contents[l][i] : i \in DOMAIN contents[l]}
OnNone == Elems \ UNION {OnList(l) : l \in Lists}

(* list_init; an element begins with whatever its memory held. *)
ListInit ==
  LET link(end) == [n \in Elems \cup ListEnds |->
                      IF \E l \in Lists : n = HeadOf(l) /\ end = "tail"
                        THEN TailOf(CHOOSE l \in Lists : n = HeadOf(l))
                      ELSE IF \E l \in Lists : n = TailOf(l) /\ end = "head"
                        THEN HeadOf(CHOOSE l \in Lists : n = TailOf(l))
                      ELSE NoLink]
  IN  /\ next = link("tail") /\ prev = link("head")
      /\ contents = [l \in Lists |-> <<>>]

----------------------------------------------------------------------------
(* list_insert_before *)
InsertBefore(before, e) ==
  /\ next' = [next EXCEPT ![prev[before]] = e, ![e] = before]
  /\ prev' = [prev EXCEPT ![e] = prev[before], ![before] = e]

(* Mutant of Unlink: only the forward link is mended. *)
UnlinkForward(e) == next' = [next EXCEPT ![prev[e]] = next[e]] /\ prev' = prev

(* list_remove *)
Unlink(e) ==
  /\ next' = [next EXCEPT ![prev[e]] = next[e]]
  /\ prev' = [prev EXCEPT ![next[e]] = prev[e]]

(* list_push *)
ListPush(l, e) ==
  /\ e \in OnNone
  /\ InsertBefore(next[HeadOf(l)], e)
  /\ contents' = [contents EXCEPT ![l] = <<e>> \o @]

(* list_append *)
ListAppend(l, e) ==
  /\ e \in OnNone
  /\ InsertBefore(TailOf(l), e)
  /\ contents' = [contents EXCEPT ![l] = Append(@, e)]

(* list_empty *)
ListEmpty(l) == next[HeadOf(l)] = TailOf(l)

(* list_pop, of a list that is not empty *)
ListPop(l) ==
  /\ ~ListEmpty(l)
  /\ Unlink(next[HeadOf(l)])
  /\ contents' = [contents EXCEPT ![l] = Tail(@)]

(* list_remove, of an element of a list *)
ListRemove(e) ==
  /\ e \notin OnNone /\ Unlink(e)
  /\ \E l \in Lists : \E i \in DOMAIN contents[l] :
       /\ contents[l][i] = e
       /\ contents' = [contents EXCEPT ![l] = RemoveAt(@, i)]

ListNext ==
  \/ \E l \in Lists, e \in Elems : ListPush(l, e) \/ ListAppend(l, e)
  \/ \E l \in Lists : ListPop(l)
  \/ \E e \in Elems : ListRemove(e)

ListSpec == ListInit /\ [][ListNext]_listVars

----------------------------------------------------------------------------
(* What list_find, list_length and list_traversal go through: the elements *)
(* from an end on along the links, up to the other end.                    *)
Walked(link, from, to) ==
  LET steps[n \in 0 .. Cardinality(Elems)] ==
        IF n = 0 THEN <<link[from]>>
        ELSE LET s == steps[n - 1]
             IN  IF s[Len(s)] \in {to, NoLink} THEN s ELSE Append(s, link[s[Len(s)]])
  IN  steps[Cardinality(Elems)]

Forward(l) == Walked(next, HeadOf(l), TailOf(l))
Backward(l) == Walked(prev, TailOf(l), HeadOf(l))

(* list_length and list_find *)
ListLength(l) == Len(Forward(l)) - 1
ListFind(l, e) == \E i \in DOMAIN Forward(l) : Forward(l)[i] = e

(* Whatever was pushed, appended, popped and removed before, on this list  *)
(* and on others: the links of a list, both ways, lead through what is on  *)
(* it in order, and the length, the search and the test for an empty list  *)
(* agree with that.  The locks rely on it for their first come, first      *)
(* served, and the directories for finding every name.                     *)
LinksHold ==
  \A l \in Lists :
    /\ Forward(l) = Append(contents[l], TailOf(l))
    /\ Backward(l) = Append(Reverse(contents[l]), HeadOf(l))
    /\ ListEmpty(l) <=> contents[l] = <<>>
    /\ ListLength(l) = Len(contents[l])
    /\ \A e \in Elems : ListFind(l, e) <=> e \in OnList(l)
=============================================================================
