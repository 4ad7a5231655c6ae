---------------------------- MODULE MCGovernance ----------------------------
\* One request of this user's and one of another's; a root compartment that a
\* sub-compartment can join; one registered user; a team of two and an invite.
EXTENDS Governance
=============================================================================
