----------------------- MODULE MCCloudflareDeployment -----------------------
EXTENDS CloudflareDeployment, TLC

\* Plans, requests and versions differ only by their names.
MCSymmetry == Permutations(Deployments) \cup Permutations(Requests)
                 \cup Permutations(Versions)

=============================================================================
