SPECIFICATION Spec
CONSTANTS
    Nodes <- MCNodes
    Platforms <- MCPlatforms
    Plans <- MCPlans
INVARIANTS LaunchInv ExeThere CleanedUp
