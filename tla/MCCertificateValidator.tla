----------------------- MODULE MCCertificateValidator -----------------------
(* Instances of CertificateValidator for TLC: a root r, authorities a and  *)
(* s, and a ticket t.  Contents differ from an ordinary chain in one       *)
(* respect at a time, but in all three certificates of the chain at once.  *)
EXTENDS CertificateValidator, TLC

CONSTANTS r, s, a, t, cam

(* r issued a, and a issued t; s is not used. *)
Ordinary ==
    [c \in Cert |->
        [issuer |-> CASE c = r -> Self [] c = a -> r [] c = t -> a [] c = s -> t,
         ca |-> c \in {r, a}, app |-> IF c = t THEN Aid ELSE {},
         issues |-> IF c \in {r, a} THEN Aid ELSE {},
         start |-> 0, count |-> 5, unit |-> "second",
         assurance |-> [level |-> 1, confidence |-> 1],
         region |-> NoRegion,
         genuine |-> TRUE, altGenuine |-> TRUE,
         altKey |-> IF c \in {r, a} THEN "good" ELSE "none", altSignature |-> "good"]]

(* A chain of four, which is too long if MaxChainDepth is 3. *)
Deep == [Ordinary EXCEPT ![a].issuer = s,
                         ![s] = [Ordinary[a] EXCEPT !.issuer = r]]

Vary(ofR, ofA, ofT) ==
    {[c \in Cert |->
        CASE c = r -> vr @@ Ordinary[r] [] c = a -> va @@ Ordinary[a]
          [] c = t -> vt @@ Ordinary[t] [] c = s -> Ordinary[s]] :
        vr \in ofR, va \in ofA, vt \in ofT}

Validities == {[start |-> 0, count |-> 5, unit |-> "second"],
               [start |-> 1, count |-> 3, unit |-> "second"],
               [start |-> 1, count |-> 3, unit |-> "fraction"],
               [start |-> 0, count |-> 2, unit |-> "year"],
               [start |-> 0, count |-> 4, unit |-> "year"]}

Permissions == {[ca |-> TRUE, app |-> {}, issues |-> Aid], [ca |-> TRUE, app |-> {}, issues |-> {}],
                [ca |-> TRUE, app |-> Aid, issues |-> Aid], [ca |-> FALSE, app |-> Aid, issues |-> {}]}

Assurances == {[assurance |-> [level |-> l, confidence |-> c]] : l \in -1..1, c \in 0..1}

Region(shape, lo, hi) == [region |-> [shape |-> shape, lo |-> lo, hi |-> hi]]
Regions == {[region |-> NoRegion], Region("circle", 0, 4), Region("circle", 0, 1),
            Region("rectangles", 0, 4), Region("polygon", 0, 4)}

Material(key, signature, genuine) == [altKey |-> key, altSignature |-> signature, altGenuine |-> genuine]
Materials == {Material("none", "none", FALSE), Material("good", "good", TRUE),
              Material("good", "good", FALSE), Material("none", "good", TRUE),
              Material("bad", "good", TRUE), Material("good", "none", FALSE),
              [genuine |-> FALSE]}

MCContents ==
    {Ordinary, Deep}
        \cup Vary(Validities, Validities, Validities)
        \cup Vary(Permissions, Permissions, Permissions)
        \cup Vary({[assurance |-> [level |-> 1, confidence |-> 0]]}, Assurances, Assurances)
        \cup Vary(Regions, Regions, Regions)
        \cup Vary({Material("good", "good", TRUE), Material("none", "none", FALSE)},
                  Materials, Materials)

Everything == {"runtime", "provider", "checker", "issuers", "trust", "crl", "ecc", "pqc"}
Full == [has |-> Everything, off |-> {}]
Partial == {[has |-> Everything \ {o}, off |-> {}] : o \in Everything}
            \cup {[has |-> Everything, off |-> {o}] : o \in {"time", "location", "chain", "region"}}
            \cup {[has |-> Everything \ {"runtime", "provider"}, off |-> {"time", "location"}]}

(* Incomplete configurations meet a chain whose regions are not nested. *)
MCSetups ==
    [content : MCContents, config : {Full}]
        \cup [content : Vary({Region("circle", 0, 1)}, {Region("circle", 0, 4)}, {[region |-> NoRegion]}),
              config : Partial]
=============================================================================
