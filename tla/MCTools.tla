-------------------------------- MODULE MCTools --------------------------------
(* Instances of Tools for TLC. *)
EXTENDS Tools, TLC

Flags == {"auto", "persistent", "quiet", "commitable", "asComment", "markers"}

\* One after the other, or two at a time.
Conf(n, host, tools, on) ==
    [host |-> host, tools |-> tools, active |-> n] @@ [f \in Flags |-> f \in on]

P == "persistent"

\* Runs enough for a history to be cut at a bound of two.
Five == [n \in 1..5 |-> "improve"]

Improving ==
    {Conf(1, "gitlab", Five, {P}),
     Conf(2, "github", <<"improve", "improve", "improve">>, {P, "auto"}),
     Conf(2, "gitlab", <<"improve", "improve", "improve">>, {P}),
     Conf(1, "gitea", <<"improve", "improve", "improve">>, {P}),
     Conf(2, "github", <<"improve", "improve">>, {P}),
     Conf(2, "azure", <<"improve", "improve">>, {P, "quiet"}),
     Conf(2, "gitea", <<"improve", "improve">>, {"commitable"}),
     Conf(2, "gitlab", <<"improve", "improve">>, {}),
     Conf(1, "bitbucket", <<"improve", "improve">>, {P})}

Reviewing ==
    {Conf(2, h, <<"review", "review">>, {P}) : h \in {"github", "bitbucket"}}
    \cup {Conf(1, h, <<"review", "review">>, {P}) : h \in {"azure", "bitbucket_server"}}
    \cup {Conf(2, "gitlab", <<"review", "review">>, {P, "quiet"}),
          Conf(2, "github", <<"review", "describe">>, {P, "auto"}),
          Conf(2, "gitlab", <<"review", "describe">>, {P, "auto"}),
          Conf(1, "gitea", <<"review", "describe">>, {P})}

Describing ==
    {Conf(2, "github", <<"describe", "describe">>, {}),
     Conf(2, "gitlab", <<"describe", "describe">>, {"auto", "markers"}),
     Conf(1, "github", <<"describe", "describe">>, {P, "asComment"})}

MCSettings == Improving \cup Reviewing \cup Describing
=============================================================================
