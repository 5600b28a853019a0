------------------------------ MODULE MCFeeds ------------------------------
EXTENDS Feeds, TLC
MCRanked == <<"btc", "eth">>
=============================================================================
