--------------------- MODULE MCCertificateDistribution ---------------------
(* Two stations a and b with tickets of the authority A, whose certificate *)
(* only a has.  a considers the ticket te of another station expired.      *)
EXTENDS CertificateDistribution

CONSTANTS a, b, ta, tb, te, A

MCOwnTicket == [n \in Station |-> IF n = a THEN ta ELSE tb]
MCIssuer == [t \in Ticket |-> A]
MCShort == [c \in Certificate |-> CASE c = ta -> 1 [] c = tb -> 2 [] c = A -> 3 [] c = te -> 4]

MCAids == [n \in Station |-> IF n = a THEN {"CA", "SCR"} ELSE {"CA", "DEN"}]
MCPreloaded == [n \in Station |-> IF n = a THEN {A} ELSE {}]
MCRejected == [n \in Station |-> IF n = a THEN {te} ELSE {}]

(* a hears a station with the ticket te that asks for A and te, and a       *)
(* message that claims to be of b.                                          *)
MCStrange ==
    [n \in Station |->
        IF n = a
        THEN {[aid |-> "CA", signer |-> te, full |-> TRUE, signed |-> TRUE,
               requests |-> <<3, 4>>, included |-> Nobody],
              [aid |-> "CA", signer |-> tb, full |-> TRUE, signed |-> FALSE,
               requests |-> <<>>, included |-> A]}
        ELSE {}]
=============================================================================
