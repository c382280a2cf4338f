------------------------------ MODULE MCReload ------------------------------
(* Files: two machines of one panel, one of them with its URL in capitals;  *)
(* one without health endpoint; one with a port of its own that names a     *)
(* machine twice, with the default port of the panel once, and one that     *)
(* does so with capitals; one whose instances share a directory; one whose  *)
(* only URL is none.                                                        *)
EXTENDS ConfigReload

MCEnv == [url |-> None, domain |-> None, machine |-> None, token |-> None,
          ref |-> "secret"]
MCNormalizedURL ==
    [u \in {"http://p", "HTTP://P/", "http://p:80", "nowhere"} |->
        CASE u = "nowhere" -> None [] u = "HTTP://P/" -> "http://p" [] OTHER -> u]

Key == [machine |-> None, token |-> "secret", tokenEnv |-> FALSE, url |-> None,
        legacy |-> FALSE, dir |-> None, health |-> None, custom |-> None,
        autoTLS |-> FALSE, domain |-> None, cert |-> None, interval |-> 0,
        tuning |-> None]
Top == [Key EXCEPT !.url = "http://p", !.tuning = "fast"]
One == [Key EXCEPT !.machine = 1]
Two == [Key EXCEPT !.machine = 2, !.url = "HTTP://P/"]
Shared == [path |-> "data", id |-> None]

Root(instances) == [kind |-> "root", top |-> Top, instances |-> instances]
MCContent ==
    [two |-> Root(<<One, Two>>),
     quiet |-> Root(<<[One EXCEPT !.health = 0, !.token = None, !.tokenEnv = TRUE]>>),
     twice |-> Root(<<One, [One EXCEPT !.url = "HTTP://P/", !.dir = Shared]>>),
     aliased |-> Root(<<[One EXCEPT !.health = 8080],
                        [One EXCEPT !.url = "http://p:80"]>>),
     shared |-> Root(<<[One EXCEPT !.dir = Shared], [Two EXCEPT !.dir = Shared]>>),
     nowhere |-> [kind |-> "root", instances |-> <<>>,
                  top |-> [One EXCEPT !.url = "nowhere"]]]
MCFiles == DOMAIN MCContent
=============================================================================
