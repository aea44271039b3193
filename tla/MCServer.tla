-------------------------------- MODULE MCServer --------------------------------
(***************************************************************************)
(* A process from its start to its end, for TLC: Startup and Access of two  *)
(* processes, and Shutdown of one.  A run is about the setup of an          *)
(* installation, about the sessions of one that has users, about guesses at *)
(* its passwords, or about a shutdown.                                      *)
(***************************************************************************)
EXTENDS Access, Shutdown

CONSTANTS n1, b1   \* the first of the users, and of the browsers

VARIABLE part      \* bound: what a run is about

\* The journal has two migrations, the second of which rebuilds tables.
MCRebuilding == {2}

MCInit ==
    /\ Init /\ ShutdownInit
    /\ part \in {"setup", "sessions", "guesses", "shutdown"}
    /\ part = "setup" <=> follows = "setup"
    /\ part # "setup" => role[n1] = "admin"

Asks(p, place) == pc[p] = "serving" /\ pc'[p] = place

\* No login fails and no process is killed; the first login is in b1, for it does not
\* matter which.
SessionsOnly ==
    /\ crashes' = 0
    /\ \A p \in Processes :
          Asks(p, "count") =>
              request'[p].right /\ (logins = 0 => request'[p].browser = b1)

\* There is one user, in one browser, who sends no forms.
GuessesOnly ==
    /\ posts' = {}
    /\ \A n \in Names \ {n1} : role'[n] = role[n]
    /\ \A p \in Processes :
          Asks(p, "count") => request'[p].name = n1 /\ request'[p].browser = b1

AccessNext ==
    /\ Next
    /\ part = "sessions" => SessionsOnly
    /\ part = "guesses" => GuessesOnly
    /\ UNCHANGED shutdownVars

MCNext ==
    /\ UNCHANGED part
    /\ IF part = "shutdown" THEN ShutdownNext /\ UNCHANGED vars ELSE AccessNext

\* The fairness of Access says nothing of a process that serves and is asked nothing,
\* nor does that of Shutdown before a signal or a request.
MCSpec ==
    /\ MCInit /\ [][MCNext]_<<vars, shutdownVars, part>>
    /\ AccessFairness /\ ShutdownFairness
=============================================================================
