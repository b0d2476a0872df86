-------------------------- MODULE MCMaintenanceScan --------------------------
(* A document and the vault of its owner, with a live claim and a retired one. *)
EXTENDS MaintenanceScan, TLC

CONSTANTS ada, ben, docA, ca, cc, src, doi, q0

MCDocOf      == ca :> docA @@ cc :> docA
MCOwnerOf    == docA :> ada
MCText       == ca :> "t" @@ cc :> "t"
MCImportedBy == src :> ben

MCDrafts == {[claim |-> ca, relation |-> "challenges", doi |-> doi]}

MCSubmissions == {[claim |-> ca, verdict |-> "endorses", ai |-> ai, refs |-> FALSE] :
                    ai \in BOOLEAN}

RequestSymmetry == Permutations(Requests \ Earlier) \cup Permutations(Clicks)
=============================================================================
