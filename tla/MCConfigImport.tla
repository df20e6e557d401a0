-------------------------- MODULE MCConfigImport --------------------------
(* Instances of ConfigImport: one row of each kind may exist already, and  *)
(* the documents hold one entry of each kind.                              *)
EXTENDS ConfigImport

CONSTANTS n1, n2, v1, v2, none, f1, f2, k1, s1

Off == [keep |-> None, enabled |-> FALSE]
EntryOf(ref, reenter, reenterUrl, policy) ==
    [ref |-> ref, name |-> n1, value |-> v2, on |-> TRUE,
     reenter |-> reenter, reenterUrl |-> reenterUrl, folder |-> f2, policy |-> policy]

DocumentOf(refs, url, values) ==
    [rows |-> [e \in Entities |->
                  {EntryOf(refs[e], FALSE, url /\ e = "Playlist",
                           IF e = "Playlist" THEN [keep |-> k1, enabled |-> TRUE] ELSE Off)}],
     links |-> {[playlist |-> refs["Playlist"], profile |-> refs["Profile"],
                 storage |-> refs["Storage"]]},
     settings |-> values]

DistinctRefs == [e \in Entities |-> <<e, 0>>]
AllRefs == Entities \X (Ids \cup {0})

\* The second document calls its Storage and its Profile by one reference.
WholeDocument == DocumentOf(DistinctRefs, FALSE, [k \in {s1} |-> v2])
SharedDocument == DocumentOf([DistinctRefs EXCEPT !["Storage"] = <<"Profile", 0>>],
                             FALSE, [k \in {s1} |-> v2])
TwoDocuments == {WholeDocument, SharedDocument}

RowNow(e) == [name |-> n1, value |-> v1, secret |-> v1, on |-> TRUE, folder |-> f1,
              policy |-> IF e = "Playlist" THEN [keep |-> k1, enabled |-> TRUE, dryRun |-> k1]
                         ELSE NoPolicy,
              at |-> 0, by |-> None, torn |-> FALSE]
Tables(filled) ==
    [e \in Entities |-> [i \in Ids |-> IF <<e, i>> \in filled THEN RowNow(e) ELSE None]]
Unassigned == [pair \in Ids \X Ids |-> None]

\* A Profile of another name has the number of the Playlist.
Shifted == [Tables({<<"Storage", 1>>, <<"Profile", 2>>, <<"Playlist", 1>>}) EXCEPT
               !["Profile"][1] = [RowNow("Profile") EXCEPT !.name = n2]]
AnyDatabase ==
    {[tables |-> Tables({}), links |-> Unassigned],
     [tables |-> Shifted, links |-> [Unassigned EXCEPT ![<<1, 2>>] = [storage |-> 1, at |-> 0]]]}

=============================================================================
