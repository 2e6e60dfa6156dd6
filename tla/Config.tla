-------------------------------- MODULE Config --------------------------------
(***************************************************************************)
(* Which connector a URL and options select, and when they are refused      *)
(* (libsql/sql.go): NewConnector, and Driver.Open, which takes no options.  *)
(* URLs with the scheme file go to another driver and are left out.         *)
(***************************************************************************)
EXTENDS Naturals, Sequences, FiniteSets, SequencesExt

CONSTANTS
  Tokens,     \* credentials
  Unset,      \* a nil pointer of config, or the empty string
  MaxOptions  \* bound: options passed

ASSUME ConfigAssumption ==
  /\ Unset \notin Tokens \cup BOOLEAN
  /\ Unset \notin {"host", "http://host", "ws://host", "headers"}
  /\ MaxOptions \in Nat

Schemes == {"libsql", "http", "https", "ws", "wss", "ftp"}
TokenParams == {"auth_token", "authToken", "jwt"}

(* A URL: its scheme, whether it names a port, its query parameters (tls    *)
(* may be absent, empty, 0, 1 or anything else), and one that is unknown.   *)
Url == [scheme : Schemes, port : BOOLEAN,
        tokens : [TokenParams -> {Unset} \cup Tokens],
        tls : {"absent", "", "0", "1", "2"}, unknown : BOOLEAN]

Option ==
  [kind : {"authToken"}, value : {Unset} \cup Tokens]
  \cup [kind : {"tls"}, value : BOOLEAN]
  \cup [kind : {"proxy"}, value : {Unset, "host", "http://host", "ws://host"}]
  \cup [kind : {"requestHeaders"}, value : {Unset, "headers"}]

Settings == {"authToken", "tls", "proxy", "requestHeaders"}

VARIABLES
  url, opts,
  via,      \* the entry point that runs
  stage,    \* how far it is
  applied,  \* options applied
  errs,     \* options refused
  c,        \* config
  scheme,   \* u.Scheme
  host,     \* "url" or "proxy"
  results   \* what each entry point returned

input == <<url, opts>>
configVars == <<input, via, stage, applied, errs, c, scheme, host, results>>

NotRun == [kind |-> "none"]
Error == [kind |-> "error"]

ConfigInit ==
  /\ url \in Url
  /\ \* bound: a URL has one token, under any number of names
     Cardinality({url.tokens[p] : p \in TokenParams} \ {Unset}) <= 1
  /\ opts \in BoundedSeq(Option, MaxOptions)
  /\ via = "NewConnector" /\ stage = "options"
  /\ applied = 0 /\ errs = 0
  /\ c = [s \in Settings |-> Unset]
  /\ scheme = url.scheme /\ host = "url"
  /\ results = [e \in {"NewConnector", "Open"} |-> NotRun]

Fails ==
  /\ stage' = "over"
  /\ results' = [results EXCEPT ![via] = Error]
  /\ UNCHANGED <<input, via, applied, errs, c, scheme, host>>

Goes(to) == stage' = to /\ UNCHANGED <<input, via, applied, errs, results>>

-----------------------------------------------------------------------------
(* NewConnector applies the options; any that is refused is the end.        *)
Refused(o) == c[o.kind] # Unset \/ o.value = Unset

AppliesOption ==
  /\ stage = "options" /\ applied < Len(opts)
  /\ applied' = applied + 1
  /\ LET o == opts[applied']
     IN  IF Refused(o) THEN errs' = errs + 1 /\ UNCHANGED c
         ELSE c' = [c EXCEPT ![o.kind] = o.value] /\ UNCHANGED errs
  /\ UNCHANGED <<input, via, stage, scheme, host, results>>

OptionsApplied ==
  /\ stage = "options" /\ applied = Len(opts)
  /\ IF errs > 0 THEN Fails ELSE Goes("jwt") /\ UNCHANGED <<c, scheme, host>>

-----------------------------------------------------------------------------
(* config.connector, and Driver.Open with the same steps of its own.        *)
TokensGiven == {p \in TokenParams : url.tokens[p] # Unset}
UrlToken == IF TokensGiven = {} THEN Unset ELSE url.tokens[CHOOSE p \in TokensGiven : TRUE]

UrlWins(fromUrl, option) == IF fromUrl # Unset THEN fromUrl ELSE option   \* mutant
Chosen(fromUrl, option) == IF option # Unset THEN option ELSE fromUrl

ExtractsJwt ==
  /\ stage = "jwt"
  /\ IF Cardinality(TokensGiven) > 1 THEN Fails
     ELSE /\ Goes("tls")
          /\ c' = [c EXCEPT !["authToken"] = Chosen(UrlToken, @)]
          /\ UNCHANGED <<scheme, host>>

TlsOfSchemeNotInOpen == via = "Open" \/ scheme \notin {"http", "ws"}  \* mutant
TlsOfScheme == scheme \notin {"http", "ws"}
UrlTls == CASE url.tls = "0" -> FALSE
            [] url.tls = "1" -> TRUE
            [] OTHER -> TlsOfScheme

ExtractsTls ==
  /\ stage = "tls"
  /\ IF url.tls = "2" THEN Fails
     ELSE /\ Goes("unknown")
          /\ c' = [c EXCEPT !["tls"] = Chosen(UrlTls, @)]
          /\ UNCHANGED <<scheme, host>>

RejectsUnknown ==
  /\ stage = "unknown"
  /\ IF url.unknown THEN Fails
     ELSE Goes("scheme") /\ UNCHANGED <<c, scheme, host>>

ResolvesScheme ==
  /\ stage = "scheme"
  /\ IF scheme = "libsql" /\ ~c["tls"] /\ ~url.port THEN Fails
     ELSE /\ Goes("check")
          /\ scheme' = IF scheme # "libsql" THEN scheme
                       ELSE IF c["tls"] THEN "https" ELSE "http"
          /\ UNCHANGED <<c, host>>

TlsContradicts ==
  \/ scheme \in {"wss", "https"} /\ ~c["tls"]
  \/ scheme \in {"ws", "http"} /\ c["tls"]

ChecksTls ==
  /\ stage = "check"
  /\ IF TlsContradicts THEN Fails
     ELSE Goes("proxy") /\ UNCHANGED <<c, scheme, host>>

Secure(s) == s \in {"https", "wss"}
ProxyScheme ==
  CASE c["proxy"] = "http://host" -> "http"
    [] c["proxy"] = "ws://host"   -> "ws"
    [] OTHER -> scheme

UsesProxy ==
  /\ stage = "proxy"
  /\ IF c["proxy"] # Unset /\ scheme \in {"ws", "wss"} THEN Fails
     ELSE /\ Goes("select")
          /\ scheme' = ProxyScheme
          /\ host' = IF c["proxy"] = Unset THEN host ELSE "proxy"
          /\ UNCHANGED c

Connector(kind) ==
  [kind |-> kind, scheme |-> scheme, secure |-> Secure(scheme), host |-> host,
   token |-> c["authToken"],
   headers |-> IF kind = "http" THEN c["requestHeaders"] ELSE Unset]

Selects ==
  /\ stage = "select"
  /\ IF scheme \notin {"ws", "wss", "http", "https"} THEN Fails
     ELSE /\ stage' = "over"
          /\ results' = [results EXCEPT ![via] =
               Connector(IF scheme \in {"ws", "wss"} THEN "ws" ELSE "http")]
          /\ UNCHANGED <<input, via, applied, errs, c, scheme, host>>

(* The same URL, without options, through Driver.Open. *)
Opens ==
  /\ via = "NewConnector" /\ stage = "over" /\ opts = <<>>
  /\ via' = "Open"
  /\ stage' = "jwt"
  /\ c' = [s \in Settings |-> Unset]
  /\ scheme' = url.scheme /\ host' = "url"
  /\ UNCHANGED <<input, applied, errs, results>>

BothReturned == stage = "over" /\ (via = "Open" \/ opts # <<>>) /\ UNCHANGED configVars

ConfigNext ==
  \/ AppliesOption \/ OptionsApplied
  \/ ExtractsJwt \/ ExtractsTls \/ RejectsUnknown
  \/ ResolvesScheme \/ ChecksTls \/ UsesProxy \/ Selects
  \/ Opens \/ BothReturned

ConfigSpec == ConfigInit /\ [][ConfigNext]_configVars

-----------------------------------------------------------------------------
Given(kind) ==
  LET at == {i \in DOMAIN opts : opts[i].kind = kind}
  IN  IF at = {} THEN Unset ELSE opts[CHOOSE i \in at : TRUE].value

Succeeded(e) == results[e].kind \in {"ws", "http"}

(* Where NewConnector accepts a URL and its options, the token and the use  *)
(* of TLS are what the option says; without one, what the URL says; for     *)
(* TLS, what its scheme implies if it says nothing.                         *)
OptionWins ==
  Succeeded("NewConnector") =>
    LET r == results["NewConnector"]
        tls == Given("tls")
    IN  /\ r.token = IF Given("authToken") # Unset THEN Given("authToken") ELSE UrlToken
        /\ Given("proxy") = Unset =>
             (Secure(r.scheme) <=>
                IF tls # Unset THEN tls
                ELSE IF url.tls \in {"0", "1"} THEN url.tls = "1"
                ELSE url.scheme \in {"libsql", "https", "wss"})

(* sql.go:65-66: a use of TLS that only the scheme of the URL implies is    *)
(* overridden quietly by WithTls.  Not so: ChecksTls refuses an option that *)
(* contradicts http, https, ws or wss.                                      *)
ImpliedBySchemeOnly ==
  /\ url.scheme \in {"http", "https", "ws", "wss"} /\ url.tls = "absent"
  /\ Cardinality(TokensGiven) <= 1 /\ ~url.unknown
SchemeIsOverriddenQuietly ==
  stage = "over" /\ ImpliedBySchemeOnly /\ Len(opts) = 1 /\ Given("tls") # Unset
    => Succeeded("NewConnector")

(* Both entry points make the same of a URL.                                *)
EntryPointsAgree ==
  via = "Open" /\ stage = "over" => results["Open"] = results["NewConnector"]
=============================================================================
