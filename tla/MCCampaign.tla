----------------------------- MODULE MCCampaign -----------------------------
EXTENDS Campaign
CONSTANTS hsts, bola, users
MCTitles == {hsts, bola}
MCSites == {users}
\* A last batch cut short; batches rounded up to one, and an analysis too many.
MCProfiles == {<<5, 2>>, <<1, 3>>}
=============================================================================
