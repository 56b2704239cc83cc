-------------------------------- MODULE MCPages --------------------------------
(***************************************************************************)
(* Small instances of the pages and of what answers them: the page of the  *)
(* operations console; the accounts of the web portal, once with what      *)
(* concerns passwords and once with what concerns sessions and limits; its *)
(* settings and its language models; and the conversation memory.          *)
(***************************************************************************)
EXTENDS ConsoleClient, PortalAccounts, PortalConfig, HermesMemory

CONSTANTS p1, m1

VARIABLE part

pagesVars == <<part, clientVars, portalVars, configVars, hermesVars>>

Value(t, password, special, n) ==
    [text |-> t, password |-> password, special |-> special, slashes |-> n]

\* A key and the address of a service.
Typed == [secret |-> {Value("a", "none", FALSE, 0), Value("b", "none", TRUE, 1)},
          url    |-> {Value("a", "own", FALSE, 0), Value("b", "none", FALSE, 1)}]

PagesInit ==
    /\ part \in {"console", "passwords", "sessions", "settings", "models", "memory"}
    /\ ClientInit /\ AccountsInit /\ ConfigInit /\ HermesInit
    /\ part # "console" => userId = CHOOSE u \in ConsoleUsers : TRUE
    /\ part # "sessions" => usesRedis
    /\ part \notin {"passwords", "sessions"} => row.source = "other"
    /\ part # "settings" => file = process /\ \A k \in Settings : process[k] # Unset
    /\ part # "models" => fallbacks = <<>>
    /\ primary = m1

\* Passwords change at one time, with no failed attempt counted and no session
\* lost but by a restart.
PasswordsNext ==
    /\ AccountsNext
    /\ portalTime' = portalTime
    /\ usesRedis'
    /\ attempts' = None
    /\ DOMAIN redis' = DOMAIN memory' \/ memory' = Empty

\* Two passwords that stay as they are.
SessionsNext ==
    /\ AccountsNext
    /\ row' = row /\ change' = change
    /\ \A l \in Logins : login'[l].password \in {None, AdminPassword, p1}

\* After a clear or a restart with fewer entries, and two of these at most.
MemoryNext ==
    /\ HermesNext
    /\ clears' + hermesStarts' > 0 => posted' < MaxEntries
    /\ clears' + hermesStarts' <= 2

PagesNext ==
    /\ UNCHANGED part
    /\ \/ /\ part = "console" /\ ClientNext
          /\ UNCHANGED <<portalVars, configVars, hermesVars>>
       \/ /\ part = "passwords" /\ PasswordsNext
          /\ UNCHANGED <<clientVars, configVars, hermesVars>>
       \/ /\ part = "sessions" /\ SessionsNext
          /\ UNCHANGED <<clientVars, configVars, hermesVars>>
       \/ /\ part = "settings" /\ SettingsNext
          /\ UNCHANGED <<clientVars, portalVars, hermesVars>>
       \/ /\ part = "models" /\ ModelsNext
          /\ UNCHANGED <<clientVars, portalVars, hermesVars>>
       \/ /\ part = "memory" /\ MemoryNext
          /\ UNCHANGED <<clientVars, portalVars, configVars>>

PagesSpec == PagesInit /\ [][PagesNext]_pagesVars /\ ClientFairness

================================================================================
