----------------------------- MODULE MCGenerate -----------------------------
(* Two runs of the generator that may draw the same name. *)
EXTENDS Generate

MCIntermediate == <<"Intermediate-1", "Intermediate-2">>
MCName == {"RootCA", "example.com", "Intermediate-1", "Intermediate-2"}
MCKey == Runs \X MCName
MCCert == [subject : MCName, issuer : MCName, key : MCKey, signer : MCKey, ca : BOOLEAN]
MCSubject == [c \in MCCert |-> c.subject]
MCIssuer == [c \in MCCert |-> c.issuer]
MCSubjectKey == [c \in MCCert |-> c.key]
MCSignerKey == [c \in MCCert |-> c.signer]
MCAuthority == {c \in MCCert : c.ca}
\* The root of the second run is installed on the machine.
MCSystem == {c \in MCCert : /\ c.subject = "RootCA" /\ c.issuer = "RootCA" /\ c.ca
                           /\ c.key = <<2, "RootCA">> /\ c.signer = c.key}
MCCounts == <<{2}, {-1, 0}>>
=============================================================================
