---------------------------- MODULE MCServerNode ----------------------------
(* Small instances of ServerNode for TLC. *)
EXTENDS ServerNode, TLC

CONSTANTS amy, bob, admin

Acct(name, isAdmin, isWeb, rights, autoOp) ==
    [username |-> name, admin |-> isAdmin, web |-> isWeb, rights |-> rights,
     autoOp |-> autoOp]

MCUsername == {amy, bob, admin}

Admin == Acct(admin, TRUE, FALSE, UserRight, {})
Member == Acct(amy, FALSE, TRUE, {"CREATE_TEMPORARY_CHANNEL"}, {Root})
Moderator == Acct(bob, FALSE, FALSE,
                  {"MULTI_LOGIN", "CREATE_TEMPORARY_CHANNEL", "KICK_USERS",
                   "MOVE_USERS", "VIEW_ALL_USERS", "OPERATOR_ENABLE"}, {})

SessionAccounts == {[Admin EXCEPT !.rights = @ \ {"MULTI_LOGIN"}],
                    Member, Moderator}

Symmetry == Permutations(User) \cup Permutations(Channel \ {Root})
            \cup Permutations(ChannelName) \cup Permutations(Ip)
=============================================================================
