---------------------------- MODULE MCServerViews ----------------------------
(* Small instances of ServerViews for TLC. *)
EXTENDS ServerViews, TLC

CONSTANT anyone

Acct(rights) ==
    [username |-> anyone, admin |-> FALSE, web |-> FALSE,
     rights |-> {"MULTI_LOGIN"} \cup rights, autoOp |-> {}]

Creator == Acct({"CREATE_TEMPORARY_CHANNEL"})
Watcher == Acct({"VIEW_ALL_USERS"})
Seeker == Acct({"VIEW_HIDDEN_CHANNELS", "MODIFY_CHANNELS", "MOVE_USERS",
                "KICK_USERS"})

TreeAccounts == {Creator, Watcher, Seeker}

Symmetry == Permutations(User) \cup Permutations(Channel \ {Root})
            \cup Permutations(ChannelName)
=============================================================================
