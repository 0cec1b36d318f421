---------------------------- MODULE MCRunbookFlow ----------------------------
EXTENDS RunbookFlow

MCScopes == [target : Targets, key : Keys, cred : Creds]

=============================================================================
