------------------------------ MODULE ConfigOps ------------------------------
(***************************************************************************)
(* internal/config/config.go: what a configuration file is loaded as, and  *)
(* what main checks before it starts the instances.  None stands for a key *)
(* that is absent or has its zero value; tuning stands for the settings    *)
(* that are inherited and defaulted one by one and decide nothing here.    *)
(***************************************************************************)
EXTENDS Integers, Sequences

CONSTANTS None,
          Env,          \* the environment: [url, domain, machine, token, ref]
          NormalizedURL \* a URL to what normalizeBaseURL makes of it: None if
                        \* it is invalid.  Capitals, a query or a last slash make
                        \* no difference, other spellings of one panel do

\* The keys of an instance, and of the top level.
Keys == {"machine", "token", "tokenEnv", "url", "legacy", "dir", "health",
         "custom", "autoTLS", "domain", "cert", "interval", "tuning"}

DefaultHealthPort == 65530

\* A key is taken from d where c does not have it.
Or(c, d) == IF c = None THEN d ELSE c

-----------------------------------------------------------------------------
\* top-level settings are the defaults of the instances; what has to be unique
\* (directories, machine, token) is not inherited.
InheritFrom(c, parent) ==
    LET cert == Or(c.cert, parent.cert)
    IN  [c EXCEPT !.tuning = Or(@, parent.tuning),
                  !.interval = IF @ = 0 THEN parent.interval ELSE @,
                  !.custom = Or(@, parent.custom),
                  !.domain = Or(@, parent.domain),
                  !.cert = cert,
                  !.autoTLS = @ \/ (cert = None /\ parent.autoTLS),
                  !.url = Or(@, parent.url)]

ApplyEnvOverrides(c) ==
    [c EXCEPT !.url = Or(Env.url, @),
              !.domain = Or(Env.domain, @),
              !.autoTLS = @ \/ Env.domain # None,
              !.machine = Or(Env.machine, @),
              !.token = Or(Env.token, @)]

\* machine.token_env names the variable that holds the token.
ResolveEnvRefs(c) ==
    [c EXCEPT !.token = IF c.tokenEnv THEN Or(@, Env.ref) ELSE @]

\* base is the directory of the file, or one of its own below it.
SetDefaultsFrom(c, base) ==
    [c EXCEPT !.dir = Or(@, base), !.tuning = Or(@, "default")]

IsMachineMode(c) == c.machine # None

HasID(c) == IsMachineMode(c) /\ c.url # None /\ NormalizedURL[c.url] # None
AutoInstanceID(c) == <<NormalizedURL[c.url], c.machine>>

Validate(c) ==
    /\ IsMachineMode(c)
    /\ c.url # None /\ c.token # None
    /\ c.autoTLS => c.domain # None
    /\ c.interval >= 0

-----------------------------------------------------------------------------
Base == [path |-> "base", id |-> None]

Loaded(content, c) ==
    ResolveEnvRefs(ApplyEnvOverrides(
        IF content.instances = <<>> THEN c ELSE InheritFrom(c, content.top)))

\* A single instance gets its identifier later, and the base directory.
LoadedInstances(content) ==
    IF content.instances = <<>>
    THEN <<SetDefaultsFrom(Loaded(content, content.top), Base)>>
    ELSE [i \in DOMAIN content.instances |->
            LET c == Loaded(content, content.instances[i])
            IN  SetDefaultsFrom(c,
                    IF Len(content.instances) > 1
                    THEN [path |-> "base", id |-> AutoInstanceID(c)]
                    ELSE Base)]

RejectLegacyModes(content) ==
    /\ ~content.top.legacy
    /\ \A i \in DOMAIN content.instances : ~content.instances[i].legacy

\* Mutant: an identifier may occur twice.
ValidateRootWithRepeats(content) ==
    /\ content.instances # <<>> =>
         \A i \in DOMAIN content.instances : HasID(Loaded(content, content.instances[i]))
    /\ \A i \in DOMAIN LoadedInstances(content) : Validate(LoadedInstances(content)[i])

\* LoadRoot returns without error.  Instances get their identifiers before
\* they are validated, and no identifier twice.
ValidateRoot(content) ==
    /\ content.instances # <<>> =>
         /\ \A i \in DOMAIN content.instances : HasID(Loaded(content, content.instances[i]))
         /\ \A i, j \in DOMAIN content.instances :
              AutoInstanceID(Loaded(content, content.instances[i]))
                = AutoInstanceID(Loaded(content, content.instances[j])) => i = j
    /\ \A i \in DOMAIN LoadedInstances(content) : Validate(LoadedInstances(content)[i])

\* A file that is absent leaves the environment alone to decide.
LoadRoot(content) ==
    /\ content.kind # "broken"
    /\ RejectLegacyModes(content) /\ ValidateRoot(content)

-----------------------------------------------------------------------------
\* The rest is for a file that LoadRoot accepts.  A single instance whose URL
\* is none is refused only here.
NormalizeInstances(content) == HasID(LoadedInstances(content)[1])

GetHealthPort(c) == Or(c.health, DefaultHealthPort)

\* Every identifier is there once, so two instances are two owners.
ValidateStartupLayout(content) ==
    LET cs == LoadedInstances(content)
    IN  /\ \A i, j \in DOMAIN cs : i # j =>
             /\ cs[i].dir = cs[j].dir => AutoInstanceID(cs[i]) = AutoInstanceID(cs[j])
             /\ cs[i].health = cs[j].health => cs[i].health \in {None, 0}
        /\ \A i \in DOMAIN cs : cs[i].custom # "missing"

\* What an orchestrator is started with.
Instances(content) ==
    {[id |-> AutoInstanceID(LoadedInstances(content)[i]),
      dir |-> LoadedInstances(content)[i].dir] : i \in DOMAIN LoadedInstances(content)}

HealthPort(content) == GetHealthPort(LoadedInstances(content)[1])
=============================================================================
