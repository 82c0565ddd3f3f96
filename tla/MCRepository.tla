---------------------------- MODULE MCRepository ----------------------------
EXTENDS Repository
CONSTANTS main, dev, v1
MainAndDev == {main, dev}
OneTag == {v1}
=============================================================================
