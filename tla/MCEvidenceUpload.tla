---------------------------- MODULE MCEvidenceUpload ----------------------------
(* Instances of EvidenceUpload for TLC. *)
EXTENDS EvidenceUpload, TLC

\* No group, each portal's, both, and a member of the staff
MCMembership == {{}, {"customer"}, {"merchant"}, {"customer", "merchant"}, {"customer", "admin"}}

Sent(way, user, kind, file, note) ==
  [way |-> way, user |-> user, kind |-> kind, file |-> file, note |-> note]

\* On every route: what its form asks for, the other kind, the other account, a
\* file that is refused, an empty one, no file, and a note that is too long
MCPost ==
  {Sent("page", u, k, "good", "none") : u \in User, k \in DocumentKind}
  \cup {Sent("page", Customer, "evidence", "refused", "none"),
        Sent("customer", Customer, "evidence", "none", "none"),
        Sent("merchant", Merchant, "response", "good", "long"),
        Sent("merchant", Merchant, "response", "none", "short"),
        Sent("merchant", Merchant, "response", "empty", "short"),
        Sent("merchant", Merchant, "response", "none", "none"),
        Sent("api", Customer, "evidence", "good", "none"),
        Sent("api", Merchant, "response", "good", "none")}
  \cup {Sent("customer", u, "evidence", "good", "none") : u \in User}
  \cup {Sent("merchant", u, "response", "good", "none") : u \in User}

Interchangeable == Permutations(Upload) \cup Permutations(Name)
================================================================================
