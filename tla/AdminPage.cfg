\* Two handlers under way at once, again and again; one pubkey, which the search
\* matches or not.  Replacing another pubkey is what Elsewhere does to this one.
CONSTANTS
    Flows = {f1, f2}
    Keys = {k1}
    Searches = {{k1}, {}}
    MaxTimers = 2
    NoKey = no_key
SPECIFICATION Spec
SYMMETRY Symmetry
INVARIANT TypeOK
PROPERTIES BannerClears OwnChangeShown
