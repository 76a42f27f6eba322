------------------------------ MODULE Residency ------------------------------
(***************************************************************************)
(* Where Felyx sends its prompts: the copilot's configuration, the          *)
(* residency gate, the two provider clients and the copilot's bootstrap     *)
(* (crates/copilot/src/config.rs, residency.rs, resolver.rs, provider/;     *)
(* crates/api/src/copilot/state.rs).                                        *)
(*                                                                          *)
(* Actors: the console, which builds one client from its environment and    *)
(* sends every question through it; name resolution, which changes under    *)
(* it; the endpoint, which may answer, redirect, fail, or echo the request  *)
(* it was sent into an error.                                               *)
(*                                                                          *)
(* A definition marked Mutant is a wrong form of the one after it; no       *)
(* action uses it.                                                          *)
(***************************************************************************)
EXTENDS Integers, FiniteSets

CONSTANTS
    MaxMoves,   \* bound: changes of what the hostname resolves to
    MaxAsks,    \* bound: questions
    Word,       \* 2^32, scaled down: token counts are kept modulo or up to it
    MaxCount    \* bound: the largest count an endpoint reports

Local == "private"     \* loopback, RFC 1918 or link-local: is_local_ip
Public == "public"

\* The kinds of provider, and what a missing base_url means for each.  "local_ip" stands
\* also for the name localhost, which the code takes as local without a look-up.
Kind == {"none", "ollama", "openai_compat", "anthropic", "openrouter"}
DefaultUrl == [k \in Kind |-> CASE k = "ollama" -> "local_ip"
                                [] k \in {"anthropic", "openrouter"} -> "cloud_name"
                                [] OTHER -> ""]

VARIABLES
    config,    \* the CopilotConfig; it does not change
    proxySet,  \* does the process's environment name a proxy
    names,     \* what the configured hostname resolves to now
    service,   \* "starting", "disabled", "failed" or "ready"
    client,    \* what the gate let through: [local, checks, redirects, proxied]
    pooled,    \* the addresses of the idle connections the client keeps
    asking,    \* where the question under way is, and the address it went to
    dialled,   \* history: the addresses of every connection made
    told,      \* history: what questions ended in, as the operator reads it
    usage,     \* the last answer: what the endpoint reported and what was kept
    moves, asks

residencyVars == <<config, proxySet, names, service, client, pooled, asking, dialled, told, usage,
                   moves, asks>>

\* One flaw at most, named by the field that cannot be used.  `hostname` is a name
\* the operator may have put on the allow-list.
Config == [kind : Kind, url : {"", "local_ip", "public_ip", "hostname"},
           flaw : {"", "model", "api_key", "agent_id", "fuse_key"},
           remote : BOOLEAN, listed : BOOLEAN]

NoClient == [local |-> FALSE, checks |-> FALSE, redirects |-> FALSE, proxied |-> FALSE]
Idle == [at |-> "idle", to |-> ""]

ResidencyInit ==
    /\ config \in Config /\ proxySet \in BOOLEAN
    /\ names \in SUBSET {Local, Public}
    /\ service = "starting" /\ client = NoClient /\ pooled = {} /\ asking = Idle
    /\ dialled = {} /\ told = {} /\ usage = [said |-> 0, kept |-> 0]
    /\ moves = 0 /\ asks = 0

-----------------------------------------------------------------------------
(***************************************************************************)
(* Building the provider.                                                   *)
(***************************************************************************)
\* resolved_base_url, and classify_host of it: "" is a missing field.
Url == IF config.url # "" THEN config.url ELSE DefaultUrl[config.kind]

\* build_provider's checks, in its order: base_url, model, api_key (which anthropic
\* must have), agent_id, fuse_key.  One is enough to refuse.
FieldRefused == Url = "" \/ config.flaw # ""

\* resolve_all_local: the addresses to connect to, none when the name does not
\* resolve or any address is not local.
ResolveAllLocal(addresses) == IF addresses = {Local} THEN addresses ELSE {}

\* check_residency: a public literal, a name that is not listed, or a listed name
\* with an address that is not local.  A provider's cloud name is not listed.
GateRefuses ==
    /\ ~config.remote
    /\ \/ Url \in {"public_ip", "cloud_name"}
       \/ Url = "hostname" /\ (~config.listed \/ ResolveAllLocal(names) = {})

\* Mutant: a name is checked when the client is built and not again.
BuiltOnce ==
    [local |-> Url = "local_ip" \/ (Url = "hostname" /\ ~config.remote),
     checks |-> FALSE, redirects |-> config.remote, proxied |-> config.remote /\ proxySet]

\* ResidencyOutcome and residency_client: under the gate no redirect is followed and
\* no proxy is read from the environment, and a listed name is checked again at
\* every connection.
Built ==
    [local |-> Url = "local_ip" \/ (Url = "hostname" /\ ~config.remote),
     checks |-> Url = "hostname" /\ ~config.remote,
     redirects |-> config.remote, proxied |-> config.remote /\ proxySet]

\* build_provider: none for a provider of "none", a refusal, or a client.
Provider ==
    CASE config.kind = "none" -> "disabled"
      [] config.kind # "none" /\ (FieldRefused \/ GateRefuses) -> "failed"
      [] OTHER -> "ready"

\* bootstrap, once.
BuildService ==
    /\ service = "starting"
    /\ service' = Provider
    /\ client' = IF Provider = "ready" THEN Built ELSE NoClient
    /\ UNCHANGED <<config, proxySet, names, pooled, asking, dialled, told, usage, moves, asks>>

-----------------------------------------------------------------------------
(***************************************************************************)
(* One question: connect, send, read.                                       *)
(***************************************************************************)
\* The addresses a new connection may go to, none when it is refused or fails.
Reachable ==
    CASE client.proxied -> {Public}
      [] ~client.proxied /\ Url = "local_ip" -> {Local}
      [] ~client.proxied /\ Url \in {"public_ip", "cloud_name"} -> {Public}
      [] OTHER -> IF client.checks THEN ResolveAllLocal(names) ELSE names

\* An idle connection of the pool is used as it is, without a lookup.
Reuse(a) ==
    /\ service = "ready" /\ asking = Idle /\ a \in pooled /\ asks < MaxAsks
    /\ asking' = [at |-> "sent", to |-> a] /\ asks' = asks + 1
    /\ UNCHANGED <<config, proxySet, names, service, client, pooled, dialled, told, usage, moves>>

Connect(a) ==
    /\ service = "ready" /\ asking = Idle /\ asks < MaxAsks /\ a \in Reachable
    /\ asking' = [at |-> "sent", to |-> a] /\ asks' = asks + 1
    /\ dialled' = dialled \cup {a}
    /\ UNCHANGED <<config, proxySet, names, service, client, pooled, told, usage, moves>>

\* Mutant: every failure to connect reads as the network's.
ConnectFailsPlain ==
    /\ service = "ready" /\ asking = Idle /\ asks < MaxAsks /\ Reachable = {}
    /\ told' = told \cup {"transport"}
    /\ asks' = asks + 1
    /\ UNCHANGED <<config, proxySet, names, service, client, pooled, asking, dialled, usage, moves>>

\* map_send_error: a refusal of the resolver is told apart from any other failure.
\* A name with no address fails in either client.
ConnectFails ==
    /\ service = "ready" /\ asking = Idle /\ asks < MaxAsks /\ Reachable = {}
    /\ told' = told \cup {IF client.checks THEN "refused" ELSE "transport"}
    /\ asks' = asks + 1
    /\ UNCHANGED <<config, proxySet, names, service, client, pooled, asking, dialled, usage, moves>>

\* exchange ends in an error: the transport's, a status that is not 2xx (a redirect
\* that is not followed is one), or a body that cannot be read.
Errs(kind) ==
    /\ asking.at = "sent"
    /\ told' = told \cup {kind}
    /\ asking' = Idle
    /\ pooled' = IF kind = "transport" THEN pooled ELSE pooled \cup {asking.to}
    /\ UNCHANGED <<config, proxySet, names, service, client, dialled, usage, moves, asks>>

\* A Location names another address; it is followed or it is an answer that is not
\* 2xx.
Redirected(a) ==
    /\ asking.at = "sent" /\ client.redirects
    /\ asking' = [at |-> "sent", to |-> a] /\ dialled' = dialled \cup {a}
    /\ UNCHANGED <<config, proxySet, names, service, client, pooled, told, usage, moves, asks>>

\* Mutant: a count past the width wraps.
ClampWrapping(n) == n % Word

Clamp(n) == IF n >= Word THEN Word - 1 ELSE n

\* usage_from: the larger of the completion count and what the total leaves for it.
Output(prompt, completion, total) ==
    IF total - prompt > completion THEN total - prompt ELSE completion

\* AnthropicMessages reads its one output count and cuts it to the width.
Kept(prompt, completion, total) ==
    IF config.kind = "anthropic" THEN completion % Word
    ELSE Clamp(Output(prompt, completion, total))

\* The counts are what the endpoint bills: reasoning may be outside `completion`.
Answers(prompt, completion, total) ==
    /\ asking.at = "sent" /\ completion + prompt <= total
    /\ told' = told \cup {"answer"} /\ asking' = Idle /\ pooled' = pooled \cup {asking.to}
    /\ usage' = [said |-> IF config.kind = "anthropic" THEN completion ELSE total - prompt,
                 kept |-> Kept(prompt, completion, total)]
    /\ UNCHANGED <<config, proxySet, names, service, client, dialled, moves, asks>>

-----------------------------------------------------------------------------
\* The name resolves to something else, or to nothing (external).
NamesMove ==
    /\ moves < MaxMoves /\ moves' = moves + 1
    /\ names' \in (SUBSET {Local, Public}) \ {names}
    /\ UNCHANGED <<config, proxySet, service, client, pooled, asking, dialled, told, usage, asks>>

ResidencyNext ==
    \/ BuildService \/ ConnectFails \/ NamesMove
    \/ \E a \in {Local, Public} : Reuse(a) \/ Connect(a) \/ Redirected(a)
    \/ \E kind \in {"transport", "http", "decode"} : Errs(kind)
    \/ \E p, c, t \in 0..MaxCount : Answers(p, c, t)

ResidencySpec == ResidencyInit /\ [][ResidencyNext]_residencyVars

-----------------------------------------------------------------------------
(***************************************************************************)
(* Properties.                                                              *)
(***************************************************************************)
\* The residency gate: without the opt-in, no connection of the copilot ever goes
\* to an address that is not local, wherever its name resolves by then, wherever
\* it is redirected to and whatever proxy the environment names.
NothingLeavesTheBox == ~config.remote => Public \notin dialled

\* ProviderDescriptor: "`local == true` is the "nothing leaves this box" claim".
\* It does not hold: with the opt-in a local endpoint may redirect, or the environment name a
\* proxy, and the client follows both.
BannerIsTrue == service = "ready" /\ client.local => Public \notin dialled

\* A name that moved off the box reads as the residency gate's refusal and never
\* as a network error; a name that is on the box is never refused.
RefusalIsTold ==
    [][told' # told /\ UNCHANGED asking =>
           IF client.checks THEN names # {Local} /\ "refused" \in told'
           ELSE "refused" \notin told']_residencyVars

\* A count the endpoint reported is never kept as a smaller, plausible number: it
\* is the number, or the largest the width holds.  The anthropic client, whose
\* count is cut to the width, is the exception.
UsageNeverUnderstates ==
    config.kind # "anthropic" =>
        usage.kept >= usage.said \/ usage.kept = Word - 1

\* The copilot's endpoint stays on the box unless the operator opted out, a refusal of it
\* reads as one, and what it reports of its use is never understated (residency.rs, resolver.rs,
\* provider/openai.rs).
ResidencyHolds ==
    /\ [](NothingLeavesTheBox /\ UsageNeverUnderstates)
    /\ RefusalIsTold
=============================================================================
