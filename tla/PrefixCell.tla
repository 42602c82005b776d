----------------------------- MODULE PrefixCell -----------------------------
(***************************************************************************)
(* What the daemon promises about the delegated prefix, whatever its       *)
(* threads do: there is one current prefix record; a writer replaces it as *)
(* a whole, by a record for a /64 link; and a Router Advertisement carries *)
(* the record that is current when it is sent, never a mixture of two and  *)
(* never one that nobody published.                                        *)
(***************************************************************************)
CONSTANTS Values,        \* prefix records
          Unset,         \* no record published yet
          NoAdvert,      \* nothing advertised yet
          LinkLength     \* the prefix length every published record has

VARIABLES cell,          \* the current record, or Unset
          advert         \* the record in the last advertisement sent

vars == <<cell, advert>>

Init == /\ cell \in Values \cup {Unset}
        /\ advert = NoAdvert

Publish == /\ cell' \in {v \in Values : v.PrefixLength = LinkLength}
           /\ UNCHANGED advert

Advertise == /\ cell # Unset
             /\ advert' = cell
             /\ UNCHANGED cell

Next == Publish \/ Advertise

Spec == Init /\ [][Next]_vars
=============================================================================
