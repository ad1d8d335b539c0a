----------------------------- MODULE MCCaFallback -----------------------------
(***************************************************************************)
(* CaFallback with the compiled default file, one distribution's and one   *)
(* under another Android app's data; two directories; two embedded roots   *)
(* and two in the ROOT store, of which one is the same certificate.        *)
(***************************************************************************)
EXTENDS CaFallback

MCSearch == <<"cert.pem", "ca-bundle.crt", "termux.pem">>
MCPrivate == {"termux.pem"}
MCDirs == <<"certs", "cacerts">>
MCEmbedded == <<"mozilla1", "mozilla2">>
MCRoot == {"mozilla2", "corporate"}
===============================================================================
