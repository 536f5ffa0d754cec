---------------------------- MODULE MCClientWallet ----------------------------
(* A pop of one and a pop of three in the wallet, and a price of two.  The    *)
(* token to paste has the pop of one in it again, with a short keyset id:     *)
(* pasted, it is there twice, and the two of them make the price.             *)
EXTENDS ClientWallet

Pop(form, secret, amount) == [id |-> form, copy |-> 0, secret |-> secret, amount |-> amount]
HeldTwo == {Pop("full", 1, 1), Pop("full", 2, 3)}
PaperShort == {{Pop("short", 1, 1), Pop("short", 3, 5)}}
PaperFull == {{Pop("full", 3, 1)}}
==============================================================================
