------------------------ MODULE MCProviderConfigure ------------------------
(* The sources ProviderConfigure is checked with.  Fields are configured     *)
(* independently of each other, but for token and login; so the worlds vary  *)
(* the sources of a few fields at a time.                                    *)
EXTENDS ProviderConfigure

Absent     == [status |-> "absent", sets |-> {}]
Broken     == [status |-> "broken", sets |-> {}]
Setting(F) == {[status |-> "valid", sets |-> S] : S \in SUBSET F}
Unset      == [f \in EnvFields |-> "unset"]
Ways       == {"unset", "empty", "set"}

\* Who gives the credentials.
CredentialWorlds ==
    { [block |-> b \cup {"api_url"}, env |-> [Unset EXCEPT !["auth_token"] = e],
       system |-> s, home |-> h, netrc |-> n, previews |-> {}] :
        b \in SUBSET {"auth_token", "login"}, e \in Ways,
        s \in {Absent, Broken} \cup Setting({"auth_token", "login"}),
        h \in {Absent, Broken} \cup Setting({"auth_token", "login"}),
        n \in Netrcs }

\* Who gives the URLs, with a token and with a login.
URLWorlds ==
    { [block |-> b \cup {c},
       env |-> [Unset EXCEPT !["api_url"] = e, !["custom_app_url"] = u],
       system |-> s, home |-> h, netrc |-> "absent", previews |-> {}] :
        b \in SUBSET {"api_url", "custom_app_url"}, c \in {"auth_token", "login"},
        e \in Ways, u \in Ways,
        s \in {Absent} \cup Setting({"api_url", "custom_app_url"}),
        h \in {Absent} \cup Setting({"api_url", "custom_app_url"}) }

\* Who gives the tags, and which previews are on.
PreviewWorlds ==
    { [block |-> b \cup {"auth_token", "api_url"}, env |-> Unset,
       system |-> s, home |-> h, netrc |-> "absent", previews |-> p] :
        b \in SUBSET {"tags"}, s \in {Absent, Broken} \cup Setting({"tags"}),
        h \in {Absent, Broken} \cup Setting({"tags"}), p \in SUBSET Previews }

AllWorlds == CredentialWorlds \cup URLWorlds \cup PreviewWorlds
=============================================================================
