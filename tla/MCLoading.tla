------------------------------ MODULE MCLoading ------------------------------
(***************************************************************************)
(* A generated run with containers of its own, and a directory beside it   *)
(* with other people's, pointed at in several ways.                        *)
(***************************************************************************)
EXTENDS Loading

Run == <<"run">>    Keys == <<"run", "keys">>    Leaf == <<"run", "leaf">>    Other == <<"other">>

Server   == <<"run", "leaf", "server.pem">>
CaKey    == <<"run", "keys", "ca.p12">>       \* encrypted
Bag      == <<"run", "bag.cer">>              \* a PKCS#12 without password or name
OldBag   == <<"run", "old.p12">>              \* encrypted, needs -legacy
Notes    == <<"run", "notes.der">>            \* nothing readable
Hushed   == <<"other", "bag.bin">>            \* encrypted, without name
OldPlain == <<"other", "old.cer">>            \* needs -legacy, without name
Bundle   == <<"other", "chain.p7b">>
Locked   == <<"other", "locked.pem">>         \* may not be read
RawKey   == <<"other", "key.der">>

MCDirs == {<<>>, Run, Keys, Leaf, Other}
MCFiles == {Server, CaKey, Bag, OldBag, Notes, Hushed, OldPlain, Bundle, Locked, RawKey}
MCContainers == MCFiles \ {Hushed}
MCLabelled == {CaKey, OldBag}
MCFormat == [f \in MCFiles |->
    CASE f = Server -> "text"     [] f = Notes -> "other"  [] f = Bundle -> "pkcs7"
      [] f = Locked -> "unreadable" [] f = RawKey -> "key" [] OTHER  -> "pkcs12"]
MCCertified == {Server, Bag, OldBag, Hushed, OldPlain, Bundle}
MCKeyed == {CaKey, Bag, OldBag, Hushed, RawKey}
MCOld == {OldBag, OldPlain}
MCPassphrase == [f \in MCFiles |->
    IF f \in {CaKey, Hushed} THEN "secret" ELSE IF f = OldBag THEN "old" ELSE "none"]
MCPinnable == {<<>>, Run, Other}

Typed(f) == [at |-> f, way |-> "typed"]

MCGiven == { <<Typed(Run)>>, <<Typed(Leaf)>>, <<Typed(Server)>>, <<Typed(Keys)>>,
             <<Typed(Other), Typed(Server)>>, <<Typed(Hushed), Typed(Leaf)>>,
             <<Typed(Leaf), [at |-> Leaf, way |-> "absolute"], Typed(CaKey)>>,
             <<Typed(Bundle), Typed(Append(Run, PIN_FILENAME))>>,
             <<Typed(<<"missing">>), Typed(Bag)>> }
=============================================================================
