------------------------------- MODULE DnsLookup -------------------------------
(***************************************************************************)
(* DnsFallback and DnsConfig together (dns-fallback/dns-fallback.c): the   *)
(* resolvers of the configuration are those config_dns finds in the file.  *)
(* A lookup reads the file anew each time; here the file does not change,  *)
(* and is read once, ahead of the first lookup.                            *)
(***************************************************************************)
EXTENDS DnsFallback, DnsConfig

VARIABLES read         \* has config_dns returned?

lookupVars == <<vars, configVars, read>>

LookupInit == Init /\ ConfigInit /\ read = FALSE

\* tokenize_resolvers: what stands between blanks is a word.
Words(v) ==
  LET Read(ws, c) == IF c \in Blanks THEN Append(ws, <<>>)
                     ELSE [ws EXCEPT ![Len(ws)] = Append(@, c)]
  IN  SelectSeq(FoldLeft(Read, <<<<>>>>, v), LAMBDA w : w # <<>>)

ReadFile == ReadLine /\ ~read /\ UNCHANGED <<vars, read>>

Configured ==
  /\ ~read /\ Eof
  /\ read' = TRUE /\ config' = Words(value)
  /\ file' = <<>> /\ pos' = 1 /\ value' = <<>>
  /\ UNCHANGED <<pc, call, env, resolvers, round, memory>>

\* What the file said is what resolver_list is told.
LookupStep ==
  /\ read /\ Step
  /\ config' = config /\ UNCHANGED <<configVars, read>>

LookupNext ==
  \/ ReadFile \/ Configured
  \/ read /\ Caller /\ UNCHANGED <<configVars, read>>
  \/ LookupStep

LookupFairSpec ==
  LookupInit /\ [][LookupNext]_lookupVars /\ WF_lookupVars(LookupStep)
===============================================================================
