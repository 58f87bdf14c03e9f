---------------------------- MODULE ProbeRequest ----------------------------
(***************************************************************************)
(* From the flags of a command line to the one probe that runs: what clap  *)
(* accepts, what run_probe of src/cli/probe.rs refuses on top of it, and   *)
(* which of the many entry points of http.rs, http2.rs, http3.rs, tls.rs   *)
(* and tcp.rs each command calls.  The entry points differ in the options  *)
(* they take: one that does not take an option runs with its default.      *)
(***************************************************************************)
EXTENDS Integers, FiniteSets

CONSTANTS
  DefaultCap,   \* MAX_BODY_BYTES, and the default of --max-body-bytes
  Caps,         \* the values of --max-body-bytes considered
  None          \* Rust's None

ASSUME DefaultCapAssumption == DefaultCap \in Nat \ {0}
ASSUME CapsAssumption == Caps \subseteq Nat

Versions == {"1.2", "1.3"}
Protocols == {"tcp", "tls", "http", "http2", "http3"}

(* The subcommands that probe; "dns" only with --doh or --dot.             *)
Commands == Protocols \cup {"probe", "dns"}

(* A command line: the flags typed, and the values of those with one.      *)
(* "request" stands for --method, --path and --header; "resolver" for the  *)
(* --doh or --dot that resolves the target.                                *)
Known(command) ==
  CASE command = "tcp" -> {"resolver"}
    [] command = "tls" -> {"resolver", "insecure", "sni", "version"}
    [] command = "http" ->
         {"resolver", "plain", "insecure", "sni", "version", "request", "body",
          "output", "cap"}
    [] command = "http2" ->
         {"resolver", "insecure", "sni", "version", "request", "body",
          "output", "cap"}
    [] command = "http3" ->
         {"resolver", "insecure", "sni", "request", "body", "output", "cap"}
    [] command = "probe" ->
         {"resolver", "protocol", "plain", "insecure", "sni", "version",
          "request", "body"}
    [] command = "dns" -> {"resolver", "insecure", "doh"}

(* --plain has no TLS to configure.                                        *)
Conflicting(flags) == "plain" \in flags /\ flags \cap {"insecure", "version"} # {}

Parsed(c, f, p, v, m) ==
  /\ ~Conflicting(f)
  /\ "version" \notin f => v = "auto"
  /\ "cap" \notin f => m = DefaultCap
  /\ c \in Protocols => p = c
  /\ c \in {"probe", "dns"} /\ "protocol" \notin f => p = "tcp"
  /\ c = "dns" => "resolver" \in f

(* The command lines clap accepts, of those with flags from flagSets.  A   *)
(* value is only typed with its flag, and has its default without it.      *)
CommandLines(flagSets) ==
  UNION {{[command |-> c, flags |-> a[1], protocol |-> a[2], version |-> a[3],
           cap |-> a[4]] :
            a \in {a \in {f \in flagSets : f \subseteq Known(c)} \X Protocols
                         \X (Versions \cup {"auto"}) \X (Caps \cup {DefaultCap}) :
                     Parsed(c, a[1], a[2], a[3], a[4])}} : c \in Commands}

(* What run_probe refuses: a flag its protocol has no use for.             *)
Refused(l) ==
  /\ l.command = "probe"
  /\ \/ "plain" \in l.flags /\ l.protocol # "http"
     \/ l.protocol \in {"tcp", "tls"} /\ l.flags \cap {"request", "body"} # {}
     \/ l.protocol = "tcp" /\ l.flags \cap {"version", "sni"} # {}
     \/ l.protocol = "tcp" /\ "insecure" \in l.flags /\ "resolver" \notin l.flags
     \/ l.protocol = "http3" /\ "version" \in l.flags

-----------------------------------------------------------------------------
(* The options an entry point takes.                                       *)
HttpOptions(entry) ==
  CASE entry = "probe" -> {}
    [] entry = "probe_plain" -> {"plain"}
    [] entry = "probe_plain_output" -> {"plain", "cap", "output"}
    [] entry = "probe_with_version" -> {"version"}
    [] entry = "probe_insecure" -> {"insecure"}
    [] entry = "probe_with_version_output" -> {"version", "cap", "output"}
    [] entry = "probe_insecure_with_version" -> {"insecure", "version"}
    [] entry = "probe_insecure_with_version_output" ->
         {"insecure", "version", "cap", "output"}

Http2Options(entry) ==
  CASE entry = "probe" -> {}
    [] entry = "probe_with_version" -> {"version"}
    [] entry = "probe_insecure" -> {"insecure"}
    [] entry = "probe_with_version_output" -> {"version", "cap", "output"}
    [] entry = "probe_insecure_with_version" -> {"insecure", "version"}
    [] entry = "probe_insecure_with_version_output" ->
         {"insecure", "version", "cap", "output"}

Http3Options(entry) ==
  CASE entry = "probe" -> {}
    [] entry = "probe_insecure" -> {"insecure"}
    [] entry = "probe_output" -> {"cap", "output"}
    [] entry = "probe_insecure_output" -> {"insecure", "cap", "output"}

TlsOptions(entry) ==
  CASE entry = "probe_with_version" -> {"version"}
    [] entry = "probe_insecure_with_version" -> {"insecure", "version"}

(* The entry point each command calls.  A repeat has no cap and no file.   *)
RunHttp(flags) ==
  IF "plain" \in flags THEN "probe_plain_output"
  ELSE IF "insecure" \in flags THEN "probe_insecure_with_version_output"
  ELSE "probe_with_version_output"

RunHttp2(flags) ==
  IF "insecure" \in flags THEN "probe_insecure_with_version_output"
  ELSE "probe_with_version_output"

RunHttp3(flags) ==
  IF "insecure" \in flags THEN "probe_insecure_output" ELSE "probe_output"

RunTls(flags) ==
  IF "insecure" \in flags THEN "probe_insecure_with_version"
  ELSE "probe_with_version"

HttpRepeat(flags) ==
  IF "plain" \in flags THEN "probe_plain"
  ELSE IF "insecure" \in flags THEN "probe_insecure_with_version"
  ELSE "probe_with_version"

Http2Repeat(flags) ==
  IF "insecure" \in flags THEN "probe_insecure_with_version"
  ELSE "probe_with_version"

Http3Repeat(flags) == IF "insecure" \in flags THEN "probe_insecure" ELSE "probe"

(* The options that reach the probe.  Mutant: an insecure http run calls   *)
(* probe_insecure, which offers every TLS version.                         *)
OptionsLosingVersion(l) ==
  LET once == l.command # "probe"
  IN CASE l.protocol = "tcp" -> {}
       [] l.protocol = "tls" -> TlsOptions(RunTls(l.flags))
       [] l.protocol = "http" /\ "insecure" \in l.flags -> HttpOptions("probe_insecure")
       [] l.protocol = "http" ->
            HttpOptions(IF once THEN RunHttp(l.flags) ELSE HttpRepeat(l.flags))
       [] l.protocol = "http2" ->
            Http2Options(IF once THEN RunHttp2(l.flags) ELSE Http2Repeat(l.flags))
       [] l.protocol = "http3" ->
            Http3Options(IF once THEN RunHttp3(l.flags) ELSE Http3Repeat(l.flags))

Options(l) ==
  LET once == l.command # "probe"
  IN CASE l.protocol = "tcp" -> {}
       [] l.protocol = "tls" -> TlsOptions(RunTls(l.flags))
       [] l.protocol = "http" ->
            HttpOptions(IF once THEN RunHttp(l.flags) ELSE HttpRepeat(l.flags))
       [] l.protocol = "http2" ->
            Http2Options(IF once THEN RunHttp2(l.flags) ELSE Http2Repeat(l.flags))
       [] l.protocol = "http3" ->
            Http3Options(IF once THEN RunHttp3(l.flags) ELSE Http3Repeat(l.flags))

(* The probe that runs: its kind and its settings.  QUIC offers 1.3 only.  *)
Probe(l) ==
  LET takes == Options(l)
  IN [kind |-> IF "plain" \in takes THEN "plain" ELSE l.protocol,
      insecure |-> "insecure" \in takes,
      offered |-> IF l.protocol = "http3" THEN {"1.3"}
                  ELSE IF "version" \in takes /\ l.version # "auto"
                       THEN {l.version} ELSE Versions,
      cap |-> IF "cap" \in takes THEN l.cap ELSE DefaultCap,
      output |-> "output" \in takes /\ "output" \in l.flags,
      body |-> "body" \in l.flags]

(* The query of an encrypted resolver: every TLS version, --insecure being *)
(* the only setting.                                                       *)
Query(l) ==
  [kind |-> IF "doh" \in l.flags THEN "doh" ELSE "dot",
   insecure |-> "insecure" \in l.flags,
   offered |-> Versions, cap |-> DefaultCap, output |-> FALSE, body |-> FALSE]

Plan(l) == IF l.command = "dns" THEN Query(l) ELSE Probe(l)

Plans ==
  [kind : Protocols \cup {"plain", "doh", "dot"}, insecure : BOOLEAN,
   offered : SUBSET Versions, cap : Caps \cup {DefaultCap}, output : BOOLEAN,
   body : BOOLEAN]

=============================================================================
