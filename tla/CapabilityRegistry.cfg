SPECIFICATION Spec
CONSTANTS
    creator = creator  buyer = buyer
    Accounts = {creator, buyer}
    Owner = buyer
    Zero = zero
    Creators = {creator}
    Types = {"LoRA", "Dataset"}
    Certifiers = {buyer, zero}
    InitialCertifier = creator
    MaxTokens = 3
    Bonds = {0, 2}
    Penalties = {1}
    MIN_BOND = 1
INVARIANTS
    EthAccounted
    IndexListsLiveCapabilities
    CreatorCanExit
