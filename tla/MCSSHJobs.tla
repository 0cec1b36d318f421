------------------------------ MODULE MCSSHJobs ------------------------------
EXTENDS SSHJobs

\* The first session may use every host, the others none of them.
MCAccess == {CHOOSE s \in Sessions : TRUE} \X Hosts

=============================================================================
